---- MODULE Spec2Model ----
(***************************************************************************)
(* Attendance tracker (server.js): the data-access layer of                *)
(* GoogleSheetsService (dataset cache, APIMonitor call-budget limiter,     *)
(* emergency mode), the clock-in / clock-out reconciler and the            *)
(* missed-checkout sweeper, over a remote store of two sheets (MAIN, the   *)
(* ledger, and ON WORK, the open-session table) and a read-only roster.    *)
(*                                                                         *)
(* The service state is carried in a record w ("world") with the fields    *)
(*   main, onWork : the remote sheets (sequences of rows)                  *)
(*   cache        : this.cache, by key                                     *)
(*   em           : this.emergencyMode                                     *)
(*   burst, calls : apiMonitor.currentBurst, apiMonitor.apiCalls           *)
(*   now          : Date.now(), in milliseconds                            *)
(* Each method of the source is an operator from a world (and its inputs   *)
(* and the outcomes of the remote calls it makes) to a new world and a     *)
(* result; the actions apply them to the variables.  ClockIn and ClockOut  *)
(* are calls of the service methods clockIn(data) and clockOut(data).      *)
(***************************************************************************)
EXTENDS Integers, Sequences, FiniteSets, TLC

\* ------------------------------------------------------------- bounds
\* Ledger rows the model lets clockIn append.
MaxRows == 2
\* Advances of the clock in one behaviour.
MaxTicks == 1
\* Handler calls (clockIn, clockOut, fetch, sweep, ...) in one behaviour.
MaxOps == 4
\* Ceilings of the limiter, scaled down from 75 / 100 / 1000 so that a
\* behaviour of a few calls reaches them.
burstLimit == 2
maxCallsPerMinute == 3
maxCallsPerHour == 4
MaxElapses == 2

\* ---------------------------------------------------- program constants
TTL_EMPLOYEES == 300000
TTL_ONWORK_CAMEL == 60000
TTL_MAIN == 30000
TTL_STATS == 120000
TTL_DEFAULT == 300000
TTL_EMERGENCY == 3600000
RESTORE_EMPLOYEES == 300000
RESTORE_ONWORK == 60000
RESTORE_MAIN == 30000
RESTORE_STATS == 120000
MINUTE_MS == 60000
HOUR_MS == 3600000
CLOSE_MATCH_MS == 300000
SECONDS_PER_CENTIHOUR == 36
DAY_MS == 86400000
\* Date.now() when the process boots (never 0).
BootTime == 1000

\* ------------------------------------------------------------- values
Abs(x) == IF x < 0 THEN -x ELSE x

\* An empty cell of a time column / of the hours column.
NoTime == 0
NoHours == -1

\* Sheet titles, CONFIG.SHEETS.
SHEET_MAIN == "MAIN"
SHEET_EMPLOYEES == "EMPLOYEES"
SHEET_ON_WORK == "ON WORK"
Sheets == {SHEET_MAIN, SHEET_EMPLOYEES, SHEET_ON_WORK}

\* The keys this.cache can hold: the four the constructor creates and the
\* one getCachedSheetData derives from the title "ON WORK".
CacheKeys == {"employees", "onWork", "main", "stats", "onwork"}

\* sheetName.toLowerCase().replace(/\s+/g, '') on the three titles.
cacheKeyOf(sheetName) ==
  CASE sheetName = SHEET_MAIN -> "main"
    [] sheetName = SHEET_EMPLOYEES -> "employees"
    [] sheetName = SHEET_ON_WORK -> "onwork"

\* --------------------------------------------------- Identity Matcher
\* Names are sequences of characters over a small alphabet.
IsSpace(c) == c = " "
ToLower(c) == CASE c = "A" -> "a" [] c = "B" -> "b" [] c = "C" -> "c" [] OTHER -> c

RECURSIVE TrimLeft(_)
TrimLeft(s) == IF s # <<>> /\ IsSpace(Head(s)) THEN TrimLeft(Tail(s)) ELSE s

RECURSIVE TrimRight(_)
TrimRight(s) ==
  IF s # <<>> /\ IsSpace(s[Len(s)]) THEN TrimRight(SubSeq(s, 1, Len(s) - 1)) ELSE s

\* replace(/\s+/g, ' '): every maximal run of whitespace becomes one space.
RECURSIVE CollapseSpaces(_)
CollapseSpaces(s) ==
  IF s = <<>> THEN <<>>
  ELSE IF IsSpace(Head(s))
       THEN <<" ">> \o CollapseSpaces(TrimLeft(s))
       ELSE <<Head(s)>> \o CollapseSpaces(Tail(s))

normalizeEmployeeName(name) ==
  IF name = <<>> THEN <<>>
  ELSE LET t == CollapseSpaces(TrimRight(TrimLeft(name)))
       IN [i \in 1..Len(t) |-> ToLower(t[i])]

\* String.prototype.includes: part occurs in whole as a contiguous run.
Includes(whole, part) ==
  \E i \in 0..(Len(whole) - Len(part)) :
    \A j \in 1..Len(part) : whole[i + j] = part[j]

\* isNameMatch accepting containment in one direction only.
isNameMatchOneWay(inputName, compareName) ==
  IF inputName = <<>> \/ compareName = <<>> THEN FALSE
  ELSE LET normalizedInput == normalizeEmployeeName(inputName)
           normalizedCompare == normalizeEmployeeName(compareName)
       IN \/ normalizedInput = normalizedCompare
          \/ Includes(normalizedInput, normalizedCompare)

isNameMatch(inputName, compareName) ==
  IF inputName = <<>> \/ compareName = <<>> THEN FALSE
  ELSE LET normalizedInput == normalizeEmployeeName(inputName)
           normalizedCompare == normalizeEmployeeName(compareName)
       IN \/ normalizedInput = normalizedCompare
          \/ Includes(normalizedInput, normalizedCompare)
          \/ Includes(normalizedCompare, normalizedInput)

\* ------------------------------------------------------ Dataset Cache
\* A cache slot: present is whether this.cache has the key at all; has is
\* whether data is non-null (an empty array is a non-null payload).
NoSlot == [present |-> FALSE, has |-> FALSE, rows |-> <<>>, timestamp |-> 0, ttl |-> 0]
EmptySlot(ttl) == [present |-> TRUE, has |-> FALSE, rows |-> <<>>, timestamp |-> 0, ttl |-> ttl]

InitialCache ==
  [k \in CacheKeys |->
     CASE k = "employees" -> EmptySlot(TTL_EMPLOYEES)
       [] k = "onWork" -> EmptySlot(TTL_ONWORK_CAMEL)
       [] k = "main" -> EmptySlot(TTL_MAIN)
       [] k = "stats" -> EmptySlot(TTL_STATS)
       [] OTHER -> NoSlot]

\* isCacheValid with the comparison against the ttl turned round.
isCacheValidInverted(w, cacheKey) ==
  LET c == w.cache[cacheKey]
  IN IF ~c.present \/ ~c.has \/ c.timestamp = 0 THEN FALSE
     ELSE (w.now - c.timestamp) > c.ttl

isCacheValid(w, cacheKey) ==
  LET c == w.cache[cacheKey]
  IN IF ~c.present \/ ~c.has \/ c.timestamp = 0 THEN FALSE
     ELSE (w.now - c.timestamp) < c.ttl

\* The new this.cache after setCache(cacheKey, data).
setCache(w, cacheKey, data) ==
  LET c == w.cache[cacheKey]
      ttl == IF c.present THEN c.ttl ELSE TTL_DEFAULT
  IN [w.cache EXCEPT ![cacheKey] =
        [present |-> TRUE, has |-> TRUE, rows |-> data, timestamp |-> w.now, ttl |-> ttl]]

\* getCache: the payload, or null (has = FALSE).
getCache(w, cacheKey) ==
  LET c == w.cache[cacheKey]
  IN IF c.present /\ c.has THEN [has |-> TRUE, rows |-> c.rows]
     ELSE [has |-> FALSE, rows |-> <<>>]

\* clearCache(cacheKey) with a key: throws (a TypeError) when this.cache has
\* no such key, else nulls data and timestamp.
clearCacheThrows(cache, cacheKey) == ~cache[cacheKey].present
clearCacheKey(cache, cacheKey) ==
  [cache EXCEPT ![cacheKey] = [@ EXCEPT !.has = FALSE, !.rows = <<>>, !.timestamp = 0]]

\* clearCache() without a key: every key the cache holds.
clearCacheAll(cache) ==
  [k \in CacheKeys |->
     IF cache[k].present
     THEN [cache[k] EXCEPT !.has = FALSE, !.rows = <<>>, !.timestamp = 0]
     ELSE cache[k]]

\* ------------------------------------------------ Call Budget Limiter
CountRecent(calls, now, window) ==
  Cardinality({i \in 1..Len(calls) : (now - calls[i]) < window})

\* canMakeAPICall with the minute ceiling compared by > in place of >=.
canMakeAPICallMinuteOffByOne(w) ==
  LET callsInLastMinute == CountRecent(w.calls, w.now, MINUTE_MS)
      callsInLastHour == Len(w.calls)
  IN IF w.burst >= burstLimit THEN FALSE
     ELSE IF callsInLastMinute > maxCallsPerMinute THEN FALSE
     ELSE IF callsInLastHour >= maxCallsPerHour THEN FALSE
     ELSE TRUE

\* canMakeAPICall: whether it answers true (it then increments currentBurst).
canMakeAPICall(w) ==
  LET callsInLastMinute == CountRecent(w.calls, w.now, MINUTE_MS)
      callsInLastHour == Len(w.calls)
  IN IF w.burst >= burstLimit THEN FALSE
     ELSE IF callsInLastMinute >= maxCallsPerMinute THEN FALSE
     ELSE IF callsInLastHour >= maxCallsPerHour THEN FALSE
     ELSE TRUE

RECURSIVE KeepRecent(_, _, _)
KeepRecent(calls, now, window) ==
  IF calls = <<>> THEN <<>>
  ELSE IF (now - Head(calls)) < window
       THEN <<Head(calls)>> \o KeepRecent(Tail(calls), now, window)
       ELSE KeepRecent(Tail(calls), now, window)

\* logAPICall: push the call, then drop the entries older than an hour.
logAPICall(w) == KeepRecent(Append(w.calls, w.now), w.now, HOUR_MS)

finishCall(burst) == IF burst > 0 THEN burst - 1 ELSE burst

\* ------------------------------------------------------ remote store
\* The roster sheet is read-only to this layer.
Roster == << <<"a">>, <<"A", "b">>, <<"c">> >>

\* Outcomes of one remote call: it succeeds, fails with a quota/rate-class
\* message ('quota', 'limit', '429', 'RATE_LIMIT'), or fails otherwise.
ReadOutcomes == {"ok", "quota", "error"}
WriteOutcomes == {"ok", "fail"}

\* What sheet.getRows() returns for a sheet at this moment.  ON WORK is
\* read with offset 1, from its third row: onWork holds the rows from there
\* on (the row above them is a second heading, never a session).
RemoteRows(w, sheetName) ==
  CASE sheetName = SHEET_MAIN -> w.main
    [] sheetName = SHEET_ON_WORK -> w.onWork
    [] sheetName = SHEET_EMPLOYEES -> Roster

\* ---------------------------------------------- Resilient Fetch Facade
\* (A value computed once and used several times is passed as a parameter
\* of a helper operator below, not bound by LET.)
\*
\* getCachedSheetData up to its first suspension.  kind is
\*   "hit"            the cache is valid: its payload is returned
\*   "limited_stale"  the limiter denied and a payload exists: it is returned
\*   "limited_throw"  the limiter denied and no payload exists: it throws
\*                    'Rate limit exceeded and no cached data available'
\*   "remote"         the limiter granted: the call is logged, the read issued
FetchBeginCountsDenied(w, sheetName) ==
  LET staleData == getCache(w, cacheKeyOf(sheetName))
  IN IF isCacheValid(w, cacheKeyOf(sheetName))
     THEN [kind |-> "hit", rows |-> staleData.rows, w |-> w]
     ELSE IF ~canMakeAPICall(w)
     THEN IF staleData.has
          THEN [kind |-> "limited_stale", rows |-> staleData.rows,
                w |-> [w EXCEPT !.calls = logAPICall(w)]]
          ELSE [kind |-> "limited_throw", rows |-> <<>>,
                w |-> [w EXCEPT !.calls = logAPICall(w)]]
     ELSE [kind |-> "remote", rows |-> <<>>,
           w |-> [w EXCEPT !.burst = @ + 1,
                           !.calls = logAPICall([w EXCEPT !.burst = @ + 1])]]

FetchBegin(w, sheetName) ==
  LET staleData == getCache(w, cacheKeyOf(sheetName))
  IN IF isCacheValid(w, cacheKeyOf(sheetName))
     THEN [kind |-> "hit", rows |-> staleData.rows, w |-> w]
     ELSE IF ~canMakeAPICall(w)
     THEN IF staleData.has
          THEN [kind |-> "limited_stale", rows |-> staleData.rows, w |-> w]
          ELSE [kind |-> "limited_throw", rows |-> <<>>, w |-> w]
     ELSE [kind |-> "remote", rows |-> <<>>,
           w |-> [w EXCEPT !.burst = @ + 1,
                           !.calls = logAPICall([w EXCEPT !.burst = @ + 1])]]

\* FetchEnd without the stale fallback of the catch block.
FetchEndNoFallback(w, sheetName, rows, outcome) ==
  IF outcome = "ok"
  THEN [kind |-> "fresh", rows |-> rows,
        w |-> [w EXCEPT !.cache = setCache(w, cacheKeyOf(sheetName), rows),
                        !.burst = finishCall(@)]]
  ELSE [kind |-> "throw", rows |-> <<>>,
        w |-> [w EXCEPT !.burst = finishCall(@)]]

\* FetchEnd with the stale fallback on every kind of failure.
FetchEndFallbackOnAnyError(w, sheetName, rows, outcome) ==
  LET staleData == getCache(w, cacheKeyOf(sheetName))
  IN IF outcome = "ok"
     THEN [kind |-> "fresh", rows |-> rows,
           w |-> [w EXCEPT !.cache = setCache(w, cacheKeyOf(sheetName), rows),
                           !.burst = finishCall(@)]]
     ELSE IF staleData.has
     THEN [kind |-> "quota_stale", rows |-> staleData.rows,
           w |-> [w EXCEPT !.burst = finishCall(@)]]
     ELSE [kind |-> "throw", rows |-> <<>>,
           w |-> [w EXCEPT !.burst = finishCall(@)]]

\* FetchEnd where a successful read ends emergency mode.
FetchEndRecovers(w, sheetName, rows, outcome) ==
  LET staleData == getCache(w, cacheKeyOf(sheetName))
  IN IF outcome = "ok"
     THEN [kind |-> "fresh", rows |-> rows,
           w |-> [w EXCEPT !.cache = setCache(w, cacheKeyOf(sheetName), rows),
                           !.burst = finishCall(@), !.em = FALSE]]
     ELSE IF outcome = "quota" /\ staleData.has
     THEN [kind |-> "quota_stale", rows |-> staleData.rows,
           w |-> [w EXCEPT !.burst = finishCall(@)]]
     ELSE [kind |-> "throw", rows |-> <<>>,
           w |-> [w EXCEPT !.burst = finishCall(@)]]

\* FetchEnd where the catch block does not call finishCall.
FetchEndLeaksOnError(w, sheetName, rows, outcome) ==
  LET staleData == getCache(w, cacheKeyOf(sheetName))
  IN IF outcome = "ok"
     THEN [kind |-> "fresh", rows |-> rows,
           w |-> [w EXCEPT !.cache = setCache(w, cacheKeyOf(sheetName), rows),
                           !.burst = finishCall(@)]]
     ELSE IF outcome = "quota" /\ staleData.has
     THEN [kind |-> "quota_stale", rows |-> staleData.rows, w |-> w]
     ELSE [kind |-> "throw", rows |-> <<>>, w |-> w]

\* getCachedSheetData from the completion of the remote read: rows is what
\* the read returned, outcome how it ended.  kind is
\*   "fresh"        the read succeeded: its rows are cached and returned
\*   "quota_stale"  it failed with a quota-class message and a payload
\*                  exists: the payload is returned
\*   "throw"        it failed otherwise: the error is rethrown
FetchEnd(w, sheetName, rows, outcome) ==
  LET staleData == getCache(w, cacheKeyOf(sheetName))
  IN IF outcome = "ok"
     THEN [kind |-> "fresh", rows |-> rows,
           w |-> [w EXCEPT !.cache = setCache(w, cacheKeyOf(sheetName), rows),
                           !.burst = finishCall(@)]]
     ELSE IF outcome = "quota" /\ staleData.has
     THEN [kind |-> "quota_stale", rows |-> staleData.rows,
           w |-> [w EXCEPT !.burst = finishCall(@)]]
     ELSE [kind |-> "throw", rows |-> <<>>,
           w |-> [w EXCEPT !.burst = finishCall(@)]]

\* Whether a fetch that ended as f threw.
Throws(f) == f.kind \in {"limited_throw", "throw"}

\* The rest of getCachedSheetData after its beginning b: the remote read,
\* if one was issued, is served from the sheet and ends with outcome.
FetchFinish(b, sheetName, outcome) ==
  IF b.kind = "remote"
  THEN FetchEnd(b.w, sheetName, RemoteRows(b.w, sheetName), outcome)
  ELSE b

\* getCachedSheetData run to completion.
getCachedSheetData(w, sheetName, outcome) ==
  FetchFinish(FetchBegin(w, sheetName), sheetName, outcome)

\* setEmergencyMode(enabled): the flag is set first; enabling widens the
\* ttl of every key the cache holds; disabling assigns the four base ttls
\* in order and throws (a TypeError) at this.cache.onwork when the cache
\* has no such key, after the employees ttl has been assigned.
setEmergencyMode(w, enabled) ==
  IF enabled
  THEN [throws |-> FALSE,
        w |-> [w EXCEPT !.em = TRUE,
                        !.cache = [k \in CacheKeys |->
                                     IF w.cache[k].present
                                     THEN [w.cache[k] EXCEPT !.ttl = TTL_EMERGENCY]
                                     ELSE w.cache[k]]]]
  ELSE IF ~w.cache["onwork"].present
  THEN [throws |-> TRUE,
        w |-> [w EXCEPT !.em = FALSE,
                        !.cache["employees"].ttl = RESTORE_EMPLOYEES]]
  ELSE [throws |-> FALSE,
        w |-> [w EXCEPT !.em = FALSE,
                        !.cache["employees"].ttl = RESTORE_EMPLOYEES,
                        !.cache["onwork"].ttl = RESTORE_ONWORK,
                        !.cache["main"].ttl = RESTORE_MAIN,
                        !.cache["stats"].ttl = RESTORE_STATS]]

\* The end of the catch block of safeGetCachedSheetData: the old payload
\* if there is one, else an empty list.
safeStale(w, sheetName) ==
  LET staleData == getCache(w, cacheKeyOf(sheetName))
  IN [kind |-> IF staleData.has THEN "emergency" ELSE "empty",
      rows |-> IF staleData.has THEN staleData.rows ELSE <<>>,
      w |-> w]

\* The catch block of safeGetCachedSheetData, entered when the fetch threw.
safeCatch(w, sheetName) ==
  safeStale(IF ~w.em THEN setEmergencyMode(w, TRUE).w ELSE w, sheetName)

\* safeGetCachedSheetData without its catch block.
safeResultRethrows(f, sheetName) == f

\* safeGetCachedSheetData applied to the result f of the fetch.
safeResult(f, sheetName) == IF Throws(f) THEN safeCatch(f.w, sheetName) ELSE f

safeGetCachedSheetData(w, sheetName, outcome) ==
  safeResult(getCachedSheetData(w, sheetName, outcome), sheetName)

\* ---------------------------------------------------------- calendar
\* The clock counts milliseconds from 00:00:00 (Asia/Bangkok, no daylight
\* saving) of EpochDate; the runs stay within the month of EpochDate.
EpochDate == [year |-> 2026, month |-> 11, day |-> 12]

DayOf(ms) == ms \div DAY_MS
SecondOfDay(ms) == (ms % DAY_MS) \div 1000

\* The calendar date of an instant.
CivilOf(ms) ==
  [year |-> EpochDate.year, month |-> EpochDate.month,
   day |-> EpochDate.day + DayOf(ms)]

\* The day number of a calendar date (proleptic Gregorian, days from
\* 1970-01-01), as moment and Date count days.
DaysFromCivil(y, m, d) ==
  LET ys == IF m <= 2 THEN y - 1 ELSE y
      mp == IF m > 2 THEN m - 3 ELSE m + 9
      era == ys \div 400
      yoe == ys % 400
      doy == (153 * mp + 2) \div 5 + d - 1
  IN era * 146097 + (yoe * 365 + yoe \div 4 - yoe \div 100 + doy) - 719468

\* The seconds from the epoch of the clock to second-of-day tod of a date.
SecondsAt(y, m, d, tod) ==
  (DaysFromCivil(y, m, d)
     - DaysFromCivil(EpochDate.year, EpochDate.month, EpochDate.day))
    * (DAY_MS \div 1000) + tod

\* A timestamp value stands for the string 'DD/MM/YYYY HH:mm:ss' of its
\* instant (formatTimestamp).
\*
\* moment.tz(string, 'YYYY-MM-DD H:mm:ss', zone) on such a string, in its
\* forgiving mode: YYYY takes the two digits of the day (a two-digit year,
\* 2000 + DD), MM the month, DD the first two digits of the year; the
\* blank skips the rest of the year, and the time is read as written.
parsedYMDDate(ts) ==
  [year |-> 2000 + CivilOf(ts).day, month |-> CivilOf(ts).month,
   day |-> CivilOf(ts).year \div 100]

\* The same, as seconds from the epoch of the clock.
parseYMD(ts) ==
  SecondsAt(parsedYMDDate(ts).year, parsedYMDDate(ts).month,
            parsedYMDDate(ts).day, SecondOfDay(ts))

\* new Date(string) on such a string (V8): the string is read as
\* 'MM/DD/YYYY HH:mm:ss' and is an Invalid Date when DD is no month.
jsDateValid(ts) == CivilOf(ts).day <= 12
jsDate(ts) ==
  SecondsAt(CivilOf(ts).year, CivilOf(ts).day, CivilOf(ts).month, SecondOfDay(ts))

\* ----------------------------------------------------------- records
\* Date.now() formatted 'DD/MM/YYYY HH:mm:ss': the instant at the
\* resolution of one second.
formatTimestamp(ms) == (ms \div 1000) * 1000

\* A ledger row as clockIn appends it (columns A, D, E, F, H, I, J, K).
NewLedgerRow(employee, timestamp, userinfo, locationName) ==
  [employee |-> employee, clockIn |-> timestamp, note |-> userinfo,
   clockOut |-> NoTime, entryLoc |-> locationName,
   exitCoords |-> "", exitLoc |-> "", hours |-> NoHours]

\* An open-session row as clockIn appends it: both name columns hold the
\* employee, both row-reference columns the ledger row number.
NewSessionRow(employee, timestamp, mainRowIndex) ==
  [systemName |-> employee, employeeName |-> employee,
   clockIn |-> timestamp, mainRowIndex |-> mainRowIndex]

\* getLocationName: the label of the geocoder, or on any failure the
\* coordinate pair.
getLocationName(geo) == IF geo = "ok" THEN "place" ELSE "lat, lon"

\* calculateWorkingHours on two timestamp strings, in seconds of work:
\* both are parsed with 'YYYY-MM-DD H:mm:ss'; a negative difference gives 0.
\* (Every string formatTimestamp writes parses to a valid date.)
calculateWorkingHours(clockInTime, clockOutTime) ==
  IF clockInTime = NoTime THEN 0
  ELSE IF parseYMD(clockOutTime) - parseYMD(clockInTime) >= 0
       THEN parseYMD(clockOutTime) - parseYMD(clockInTime)
       ELSE 0

\* hours.toFixed(2), in hundredths of an hour, of a number of seconds.
toFixed2(seconds) ==
  (seconds + (SECONDS_PER_CENTIHOUR \div 2)) \div SECONDS_PER_CENTIHOUR

\* ------------------------------------------ Work-Session Reconciler
\* The least / greatest element of a set of positions, 0 when it is empty.
FirstIndex(S) == IF S = {} THEN 0 ELSE CHOOSE i \in S : \A j \in S : i <= j
LastIndex(S) == IF S = {} THEN 0 ELSE CHOOSE i \in S : \A j \in S : i >= j

NoRecord == [pos |-> 0, mainRowIndex |-> 0, clockIn |-> NoTime,
             systemName |-> <<>>, employeeName |-> <<>>]

\* The positions of the open-session rows either of whose names matches.
sessionHits(rows, employeeName) ==
  {i \in 1..Len(rows) :
     \/ isNameMatch(employeeName, rows[i].systemName)
     \/ isNameMatch(employeeName, rows[i].employeeName)}

\* The answer of getEmployeeStatus when rows.find settled on position i
\* (0: no row).  pos stands for the row object the caller keeps.
statusAt(rows, i) ==
  IF Len(rows) = 0 \/ i = 0
  THEN [isOnWork |-> FALSE, workRecord |-> NoRecord]
  ELSE [isOnWork |-> TRUE,
        workRecord |-> [pos |-> i, mainRowIndex |-> rows[i].mainRowIndex,
                        clockIn |-> rows[i].clockIn,
                        systemName |-> rows[i].systemName,
                        employeeName |-> rows[i].employeeName]]

\* getEmployeeStatus on the rows the safe fetch returned.
statusOf(rows, employeeName) ==
  statusAt(rows, FirstIndex(sessionHits(rows, employeeName)))

\* getEmployeeStatus from the result f of the safe fetch.
statusResult(f, employeeName) ==
  [st |-> statusOf(f.rows, employeeName), w |-> f.w]

\* getEmployeeStatus run to completion: the status st and the new world.
getEmployeeStatus(w, employeeName, outcome) ==
  statusResult(safeGetCachedSheetData(w, SHEET_ON_WORK, outcome), employeeName)

\* Results of clockIn and clockOut: success and the kind of message.
Result(success, message) == [success |-> success, message |-> message]
NoResult == Result(FALSE, "none")

clearAfterWrite(cache) ==
  clearCacheKey(clearCacheKey(clearCacheKey(cache, "onwork"), "main"), "stats")

\* clockIn after both rows were appended: the three cache keys are cleared
\* and success is returned; a throwing clearCache ends in the catch block.
clockInClear(w) ==
  IF clearCacheThrows(w.cache, "onwork")
  THEN [w |-> w, res |-> Result(FALSE, "error")]
  ELSE [w |-> [w EXCEPT !.cache = clearAfterWrite(@)],
        res |-> Result(TRUE, "clocked_in")]

\* clockIn after the ledger row was appended at row number mainRowIndex:
\* the open-session row is appended; a failed append ends in the catch
\* block.
clockInAddSession(w, employee, timestamp, mainRowIndex, outcome) ==
  IF outcome # "ok"
  THEN [w |-> w, res |-> Result(FALSE, "error")]
  ELSE clockInClear([w EXCEPT !.onWork =
                       Append(@, NewSessionRow(employee, timestamp, mainRowIndex))])

\* clockIn from the addRow on MAIN: a failed append ends in the catch
\* block; else the new row's number is header + rows.
clockInAddRows(w, employee, timestamp, geo, outMain, outOnWork) ==
  IF outMain # "ok"
  THEN [w |-> w, res |-> Result(FALSE, "error")]
  ELSE clockInAddSession(
         [w EXCEPT !.main = Append(@, NewLedgerRow(employee, timestamp, "",
                                                   getLocationName(geo)))],
         employee, timestamp, Len(w.main) + 2, outOnWork)

\* clockIn from the answer s of getEmployeeStatus.
clockInDecide(s, employee, timestamp, o) ==
  IF s.st.isOnWork
  THEN [w |-> s.w, res |-> Result(FALSE, "already_clocked_in")]
  ELSE clockInAddRows(s.w, employee, timestamp, o.geo, o.writeMain, o.writeOnWork)

\* clockIn(data), run to completion: o gives the outcomes of its remote
\* calls (read of ON WORK, geocoder, append to MAIN, append to ON WORK).
clockIn(w, employee, o) ==
  clockInDecide(getEmployeeStatus(w, employee, o.read), employee,
                formatTimestamp(w.now), o)

\* clockIn(data) when data carries mock_time: the timestamp written is the
\* formatted mock_time and not the current time.
clockInMock(w, employee, mock_time, o) ==
  clockInDecide(getEmployeeStatus(w, employee, o.read), employee,
                formatTimestamp(mock_time), o)

\* Stage 1 of clockOut, the index match: the position in rows the stored
\* row number stands for, accepted when the name there matches; else 0.
stageIndexOffByOne(rows, workRecord, employee) ==
  IF workRecord.mainRowIndex # 0 /\ workRecord.mainRowIndex > 1
  THEN IF workRecord.mainRowIndex <= Len(rows)
          /\ isNameMatch(employee, rows[workRecord.mainRowIndex].employee)
       THEN workRecord.mainRowIndex ELSE 0
  ELSE 0

stageIndexAnyName(rows, workRecord, employee) ==
  IF workRecord.mainRowIndex # 0 /\ workRecord.mainRowIndex > 1
  THEN IF workRecord.mainRowIndex - 1 <= Len(rows)
       THEN workRecord.mainRowIndex - 1 ELSE 0
  ELSE 0

stageIndex(rows, workRecord, employee) ==
  IF workRecord.mainRowIndex # 0 /\ workRecord.mainRowIndex > 1
  THEN IF workRecord.mainRowIndex - 1 <= Len(rows)
          /\ isNameMatch(employee, rows[workRecord.mainRowIndex - 1].employee)
       THEN workRecord.mainRowIndex - 1 ELSE 0
  ELSE 0

\* The positions of the rows with no clock-out value and a matching name.
candidateRows(rows, employee) ==
  {i \in 1..Len(rows) :
     isNameMatch(employee, rows[i].employee) /\ rows[i].clockOut = NoTime}

\* Math.abs(new Date(rowClockIn) - new Date(clockInTime)), in seconds; it
\* is NaN when either is an Invalid Date.
timeDiff(rows, i, clockInTime) == Abs(jsDate(rows[i].clockIn) - jsDate(clockInTime))

\* Of the candidates cand, the first of those nearest in clock-in time to
\* the session (0 when no candidate has a time to compare).
comparable(rows, i, clockInTime) ==
  /\ rows[i].clockIn # NoTime /\ clockInTime # NoTime
  /\ jsDateValid(rows[i].clockIn) /\ jsDateValid(clockInTime)

closestOf(rows, cand, clockInTime) ==
  FirstIndex({i \in cand :
                /\ comparable(rows, i, clockInTime)
                /\ \A j \in cand :
                     comparable(rows, j, clockInTime) =>
                       timeDiff(rows, i, clockInTime) <= timeDiff(rows, j, clockInTime)})

\* Stages 2 and 3 on the candidates cand with closestRow the nearest one:
\* the only candidate; among several the nearest when nearer than 5 min.
stagePick(rows, cand, closestRow, clockInTime) ==
  IF Cardinality(cand) = 1 THEN [row |-> FirstIndex(cand), stage |-> 2]
  ELSE IF Cardinality(cand) > 1 /\ closestRow # 0
          /\ timeDiff(rows, closestRow, clockInTime) < CLOSE_MATCH_MS \div 1000
       THEN [row |-> closestRow, stage |-> 3]
  ELSE [row |-> 0, stage |-> 0]

\* No stage found a row / the stages were not run.
NotFound == [row |-> 0, stage |-> 0]
NotSearched == [row |-> 0, stage |-> -1]

\* Stages 2 to 4 on the candidates cand: stage 4 is the last candidate.
stageSearch(rows, cand, workRecord) ==
  LET s23 == stagePick(rows, cand, closestOf(rows, cand, workRecord.clockIn),
                       workRecord.clockIn)
  IN IF s23.row # 0 THEN s23
     ELSE IF cand # {} THEN [row |-> LastIndex(cand), stage |-> 4]
     ELSE NotFound

\* The row clockOut settles on (0: none) and the stage that found it,
\* given the answer s1 of stage 1.
locateFrom(s1, rows, workRecord, employee) ==
  IF s1 # 0 THEN [row |-> s1, stage |-> 1]
  ELSE stageSearch(rows, candidateRows(rows, employee), workRecord)

locateMainRow(rows, workRecord, employee) ==
  locateFrom(stageIndex(rows, workRecord, employee), rows, workRecord, employee)

\* The cells clockOut writes on ledger row number rowNumber (columns F, I,
\* J, K); the row numbers of the remote sheet start after the header.
updateMainRowFromD(main, rowNumber, timestamp, locationName, hoursWorked) ==
  IF rowNumber - 1 >= 1 /\ rowNumber - 1 <= Len(main)
  THEN [main EXCEPT ![rowNumber - 1] =
          [@ EXCEPT !.clockIn = timestamp, !.clockOut = timestamp,
                    !.exitCoords = "lat,lon", !.exitLoc = locationName,
                    !.hours = toFixed2(hoursWorked)]]
  ELSE main

updateMainRow(main, rowNumber, timestamp, locationName, hoursWorked) ==
  IF rowNumber - 1 >= 1 /\ rowNumber - 1 <= Len(main)
  THEN [main EXCEPT ![rowNumber - 1] =
          [@ EXCEPT !.clockOut = timestamp, !.exitCoords = "lat,lon",
                    !.exitLoc = locationName, !.hours = toFixed2(hoursWorked)]]
  ELSE main

\* row.delete() of the row object held at position pos of a fetched
\* ON WORK list: the remote row at that position goes.
deleteRowAt(rows, pos) ==
  IF pos >= 1 /\ pos <= Len(rows)
  THEN SubSeq(rows, 1, pos - 1) \o SubSeq(rows, pos + 1, Len(rows))
  ELSE rows

\* clockOut from the delete of the session row: a failed delete is logged
\* and skipped together with the clearing of the cache.
clockOutDeleteSession(w, workRecord, outcome) ==
  IF outcome # "ok"
  THEN w
  ELSE IF clearCacheThrows(w.cache, "onwork")
  THEN [w EXCEPT !.onWork = deleteRowAt(@, workRecord.pos)]
  ELSE [w EXCEPT !.onWork = deleteRowAt(@, workRecord.pos),
                 !.cache = clearAfterWrite(@)]

\* What clockOut returns and leaves behind: the new world w, the result
\* res, the row found and, for the record, the ledger rows it searched and
\* the session it searched for.
Outcome(w, res, found, rows, session) ==
  [w |-> w, res |-> res, found |-> found, rows |-> rows, session |-> session]

\* clockOut from the located row found in the fetched ledger rows.
clockOutUpdate(w, found, rows, workRecord, timestamp, geo, outUpdate, outDelete) ==
  IF found.row = 0
  THEN Outcome(w, Result(FALSE, "no_matching_record"), found, rows, workRecord)
  ELSE IF outUpdate # "ok"
  THEN Outcome(w, Result(FALSE, "error"), found, rows, workRecord)
  ELSE Outcome(clockOutDeleteSession(
                 [w EXCEPT !.main =
                    updateMainRow(@, found.row + 1, timestamp, getLocationName(geo),
                                  calculateWorkingHours(workRecord.clockIn, timestamp))],
                 workRecord, outDelete),
               Result(TRUE, "clocked_out"), found, rows, workRecord)

\* clockOut of an employee on work, from the result f of the fetch of the
\* ledger.
clockOutLedger(f, workRecord, employee, timestamp, o) ==
  IF Throws(f)
  THEN Outcome(f.w, Result(FALSE, "error"), NotSearched, <<>>, workRecord)
  ELSE clockOutUpdate(f.w, locateMainRow(f.rows, workRecord, employee), f.rows,
                      workRecord, timestamp, o.geo, o.update, o.delete)

\* clockOut of an employee not on work, from the result f of the fetch of
\* the open sessions for the suggestions.
clockOutSuggest(f) ==
  IF Throws(f)
  THEN Outcome(f.w, Result(FALSE, "error"), NotSearched, <<>>, NoRecord)
  ELSE Outcome(f.w, Result(FALSE, "not_clocked_in"), NotSearched, <<>>, NoRecord)

\* clockOut from the answer s of getEmployeeStatus.
clockOutDecide(s, employee, timestamp, o) ==
  IF ~s.st.isOnWork
  THEN clockOutSuggest(getCachedSheetData(s.w, SHEET_ON_WORK, o.read2))
  ELSE clockOutLedger(getCachedSheetData(s.w, SHEET_MAIN, o.read2),
                      s.st.workRecord, employee, timestamp, o)

\* clockOut(data), run to completion: o gives the outcomes of its remote
\* calls (read of ON WORK for the status, second read (ON WORK for the
\* suggestions or MAIN for the ledger), geocoder, cell update, row delete).
clockOut(w, employee, o) ==
  clockOutDecide(getEmployeeStatus(w, employee, o.read), employee,
                 formatTimestamp(w.now), o)

\* ------------------------------------------- Missed-Checkout Sweeper
\* CONFIG.AUTO_CHECKOUT.EXEMPT_EMPLOYEES, one name.
ExemptEmployees == {<<"c">>}

isEmployeeExempt(employeeName) ==
  IF employeeName = <<>> THEN FALSE
  ELSE LET normalizedInputName == normalizeEmployeeName(employeeName)
       IN \E exemptName \in ExemptEmployees :
            LET normalizedExemptName == normalizeEmployeeName(exemptName)
            IN \/ normalizedInputName = normalizedExemptName
               \/ Includes(normalizedInputName, normalizedExemptName)
               \/ Includes(normalizedExemptName, normalizedInputName)

\* The cutoff of the day of now, 23:59:59, as it is formatted.
CUTOFF_MS_OF_DAY == 86399000
cutoffTime(now) == DayOf(now) * DAY_MS + CUTOFF_MS_OF_DAY

\* The fixed note of a forced close.
missedCheckoutNote == "missed_checkout"

\* The cells processMissedCheckout writes on ledger row number rowNumber
\* (columns E, F, K).
updateMissedRowInD(main, rowNumber, autoClockOutTime, hoursWorked) ==
  IF rowNumber - 1 >= 1 /\ rowNumber - 1 <= Len(main)
  THEN [main EXCEPT ![rowNumber - 1] =
          [@ EXCEPT !.note = missedCheckoutNote, !.clockIn = autoClockOutTime,
                    !.hours = toFixed2(hoursWorked)]]
  ELSE main

updateMissedRow(main, rowNumber, autoClockOutTime, hoursWorked) ==
  IF rowNumber - 1 >= 1 /\ rowNumber - 1 <= Len(main)
  THEN [main EXCEPT ![rowNumber - 1] =
          [@ EXCEPT !.note = missedCheckoutNote, !.clockOut = autoClockOutTime,
                    !.hours = toFixed2(hoursWorked)]]
  ELSE main

\* processMissedCheckout after the ledger was updated: the session row
\* held at position pos of the remote sheet is deleted and two cache keys
\* are cleared.
missedDelete(w, pos, outDelete) ==
  IF outDelete # "ok"
  THEN [w |-> w, success |-> FALSE]
  ELSE IF clearCacheThrows(w.cache, "onwork")
  THEN [w |-> [w EXCEPT !.onWork = deleteRowAt(@, pos)], success |-> FALSE]
  ELSE [w |-> [w EXCEPT !.onWork = deleteRowAt(@, pos),
                        !.cache = clearCacheKey(clearCacheKey(@, "onwork"), "main")],
        success |-> TRUE]

\* processMissedCheckout for the session row workRow.
processMissedCheckout(w, workRow, pos, cutoff, outUpdate, outDelete) ==
  IF workRow.mainRowIndex # 0
  THEN IF outUpdate # "ok"
       THEN [w |-> w, success |-> FALSE]
       ELSE missedDelete(
              [w EXCEPT !.main =
                 updateMissedRow(@, workRow.mainRowIndex, cutoff,
                                 calculateWorkingHours(workRow.clockIn, cutoff))],
              pos, outDelete)
  ELSE missedDelete(w, pos, outDelete)

\* What one turn of the loop of checkAndHandleMissedCheckouts does with a
\* session row: "skip" (missing data or not clocked in today), "exempt",
\* or "process".
sweepName(workRow) ==
  IF workRow.employeeName # <<>> THEN workRow.employeeName ELSE workRow.systemName

\* clockInMoment.format('YYYY-MM-DD') === today.format('YYYY-MM-DD').
isToday(clockInTime, today) == parsedYMDDate(clockInTime) = CivilOf(today)

sweepDecision(workRow, today) ==
  IF sweepName(workRow) = <<>> \/ workRow.clockIn = NoTime THEN "skip"
  ELSE IF isEmployeeExempt(sweepName(workRow)) THEN "exempt"
  ELSE IF ~isToday(workRow.clockIn, today) THEN "skip"
  ELSE "process"

\* ============================================================== state
VARIABLES
  mainSheet,      \* the remote MAIN sheet: the ledger rows, in row order
  onWorkSheet,    \* the remote ON WORK sheet: the open-session rows
  cache,          \* sheetsService.cache
  emergencyMode,  \* sheetsService.emergencyMode
  currentBurst,   \* apiMonitor.currentBurst
  apiCalls,       \* apiMonitor.apiCalls: the instants of the logged calls
  now,            \* the clock
  ticks,          \* advances of the clock so far
  ops,            \* handler calls so far
  sweep,          \* the run of checkAndHandleMissedCheckouts in progress
  inflight,       \* the calls suspended at a remote call, in order of arrival
  last            \* the operation that led to this state, and its result

vars == <<mainSheet, onWorkSheet, cache, emergencyMode, currentBurst, apiCalls,
          now, ticks, ops, sweep, inflight, last>>

World == [main |-> mainSheet, onWork |-> onWorkSheet, cache |-> cache,
          em |-> emergencyMode, burst |-> currentBurst, calls |-> apiCalls,
          now |-> now]

Commit(w) ==
  /\ mainSheet' = w.main
  /\ onWorkSheet' = w.onWork
  /\ cache' = w.cache
  /\ emergencyMode' = w.em
  /\ currentBurst' = w.burst
  /\ apiCalls' = w.calls
  /\ now' = w.now

\* The employee names requests carry.
Names == {<<"a">>, <<"A", "b">>, <<"c">>}

NoSweep == [active |-> FALSE, rows |-> <<>>, i |-> 0, deleted |-> 0, cutoff |-> 0]

\* The record of an operation: its name and inputs (employee, sheet), its
\* result res, how its fetch ended (kind), the rows it returned or
\* searched, and for clockOut the session searched for and the row found.
Op(op, employee, sheet, res, kind, rows, session, found) ==
  [op |-> op, employee |-> employee, sheet |-> sheet, res |-> res,
   kind |-> kind, rows |-> rows, session |-> session, found |-> found]

Init ==
  /\ mainSheet = <<>>
  /\ onWorkSheet = <<>>
  /\ cache = InitialCache
  /\ emergencyMode = FALSE
  /\ currentBurst = 0
  /\ apiCalls = <<>>
  /\ now = BootTime
  /\ ticks = 0
  /\ ops = 0
  /\ sweep = NoSweep
  /\ inflight = <<>>
  /\ last = Op("boot", <<>>, "", NoResult, "", <<>>, NoRecord, NotSearched)

\* The outcomes of the remote calls of one handler call: all succeed, or
\* one of them fails.
Failures(o) == Cardinality({f \in DOMAIN o : o[f] # "ok"})

ClockInOutcomes(geos) ==
  {o \in [read : ReadOutcomes, geo : geos, writeMain : WriteOutcomes,
          writeOnWork : WriteOutcomes] : Failures(o) <= 1}

ClockOutOutcomes(geos) ==
  {o \in [read : ReadOutcomes, read2 : ReadOutcomes, geo : geos,
          update : WriteOutcomes, delete : WriteOutcomes] : Failures(o) <= 1}

SweepOutcomes ==
  {o \in [update : WriteOutcomes, delete : WriteOutcomes] : Failures(o) <= 1}

\* A handler call begins: no sweep is in progress and the budget allows it.
Begin ==
  /\ ~sweep.active
  /\ ops < MaxOps
  /\ ops' = ops + 1

\* A call of clockIn(data), from request to result.
ClockInDone(r, employee) ==
  /\ Len(r.w.main) <= MaxRows
  /\ Commit(r.w)
  /\ last' = Op("clockIn", employee, "", r.res, "", <<>>, NoRecord, NotSearched)

ClockIn(employee, o) ==
  /\ Begin
  /\ ClockInDone(clockIn(World, employee, o), employee)
  /\ UNCHANGED <<ticks, sweep, inflight>>

\* A call of clockIn(data) whose request body carries mock_time.
ClockInMock(employee, mock_time, o) ==
  /\ Begin
  /\ ClockInDone(clockInMock(World, employee, mock_time, o), employee)
  /\ UNCHANGED <<ticks, sweep, inflight>>

\* A call of clockIn(data) up to its suspension after the status check
\* (await getLocationName): a call that was not rejected stays in flight.
ClockInChecked(s, employee) ==
  /\ Commit(s.w)
  /\ IF s.st.isOnWork
     THEN /\ inflight' = inflight
          /\ last' = Op("clockIn", employee, "", Result(FALSE, "already_clocked_in"),
                        "", <<>>, NoRecord, NotSearched)
     ELSE /\ inflight' = Append(inflight, employee)
          /\ last' = Op("clockInCheck", employee, "", NoResult, "", <<>>, NoRecord,
                        NotSearched)

ClockInCheck(employee, outcome) ==
  /\ Begin
  /\ ClockInChecked(getEmployeeStatus(World, employee, outcome), employee)
  /\ UNCHANGED <<ticks, sweep>>

\* The rest of the i-th clockIn call in flight: its two appends and the
\* clearing of the cache.
ClockInWrite(i, o) ==
  /\ i \in 1..Len(inflight)
  /\ ~sweep.active
  /\ ClockInDone(clockInAddRows(World, inflight[i], formatTimestamp(now), o.geo,
                                o.writeMain, o.writeOnWork),
                 inflight[i])
  /\ inflight' = SubSeq(inflight, 1, i - 1) \o SubSeq(inflight, i + 1, Len(inflight))
  /\ UNCHANGED <<ticks, ops, sweep>>

\* A call of clockOut(data), from request to result.
ClockOutDone(r, employee) ==
  /\ Commit(r.w)
  /\ last' = Op("clockOut", employee, "", r.res, "", r.rows, r.session, r.found)

ClockOut(employee, o) ==
  /\ Begin
  /\ ClockOutDone(clockOut(World, employee, o), employee)
  /\ UNCHANGED <<ticks, sweep, inflight>>

\* A call of clockOut(data) up to its suspension after the status check
\* (await getLocationName): a call that found the employee on work stays
\* in flight with the work record and the timestamp it took; the others
\* run to their result.
ClockOutChecked(s, employee, o) ==
  IF s.st.isOnWork
  THEN /\ Commit(s.w)
       /\ inflight' = Append(inflight, [employee |-> employee,
                                        workRecord |-> s.st.workRecord,
                                        timestamp |-> formatTimestamp(s.w.now)])
       /\ last' = Op("clockOutCheck", employee, "", NoResult, "", <<>>,
                     s.st.workRecord, NotSearched)
  ELSE /\ ClockOutDone(clockOutDecide(s, employee, formatTimestamp(s.w.now), o),
                       employee)
       /\ inflight' = inflight

ClockOutCheck(employee, o) ==
  /\ Begin
  /\ ClockOutChecked(getEmployeeStatus(World, employee, o.read), employee, o)
  /\ UNCHANGED <<ticks, sweep>>

\* The rest of the i-th clockOut call in flight: the fetch of the ledger,
\* the search, the cell update and the delete of the session row.
ClockOutWrite(i, o) ==
  /\ i \in 1..Len(inflight)
  /\ ~sweep.active
  /\ ClockOutDone(clockOutLedger(getCachedSheetData(World, SHEET_MAIN, o.read2),
                                 inflight[i].workRecord, inflight[i].employee,
                                 inflight[i].timestamp, o),
                  inflight[i].employee)
  /\ inflight' = SubSeq(inflight, 1, i - 1) \o SubSeq(inflight, i + 1, Len(inflight))
  /\ UNCHANGED <<ticks, ops, sweep>>

\* A call of getCachedSheetData(sheetName) by a route or a cache warm-up.
FetchDone(f, sheetName) ==
  /\ Commit(f.w)
  /\ last' = Op("fetch", <<>>, sheetName, Result(~Throws(f), "fetch"), f.kind,
                f.rows, NoRecord, NotSearched)

Fetch(sheetName, outcome) ==
  /\ Begin
  /\ FetchDone(getCachedSheetData(World, sheetName, outcome), sheetName)
  /\ UNCHANGED <<ticks, sweep, inflight>>

\* A call of getCachedSheetData(sheetName) up to its await of the remote
\* read: a call that issued a read stays in flight, with the rows the
\* store holds as the request leaves; a hit, a denied call served from the
\* stale entry and a denied call that throws are over.
FetchStarted(b, sheetName) ==
  /\ Commit(b.w)
  /\ inflight' = IF b.kind = "remote"
                 THEN Append(inflight, [sheet |-> sheetName,
                                        rows |-> RemoteRows(b.w, sheetName)])
                 ELSE inflight
  /\ last' = Op(IF b.kind = "remote" THEN "fetchBegin" ELSE "fetch", <<>>,
                sheetName, Result(~Throws(b), "fetch"), b.kind, b.rows, NoRecord,
                NotSearched)

FetchStart(sheetName) ==
  /\ Begin
  /\ FetchStarted(FetchBegin(World, sheetName), sheetName)
  /\ UNCHANGED <<ticks, sweep>>

\* The remote read of the i-th call in flight ends with outcome, and the
\* call runs to its return or throw.  The store served the read at some
\* instant of the await: the rows are those it held as the request left
\* or those it holds as the answer arrives.
FetchComplete(i, outcome) ==
  /\ i \in 1..Len(inflight)
  /\ ~sweep.active
  /\ \E rows \in {inflight[i].rows, RemoteRows(World, inflight[i].sheet)} :
       FetchDone(FetchEnd(World, inflight[i].sheet, rows, outcome),
                 inflight[i].sheet)
  /\ inflight' = SubSeq(inflight, 1, i - 1) \o SubSeq(inflight, i + 1, Len(inflight))
  /\ UNCHANGED <<ticks, ops, sweep>>

\* A call of safeGetCachedSheetData(sheetName), as getAdminStats makes
\* for each of the three sheets.
SafeFetchDone(f, sheetName) ==
  /\ Commit(f.w)
  /\ last' = Op("safeFetch", <<>>, sheetName, Result(~Throws(f), "safeFetch"),
                f.kind, f.rows, NoRecord, NotSearched)

SafeFetch(sheetName, outcome) ==
  /\ Begin
  /\ SafeFetchDone(safeGetCachedSheetData(World, sheetName, outcome), sheetName)
  /\ UNCHANGED <<ticks, sweep, inflight>>

\* POST /api/admin/emergency-mode.
SetEmergencyModeDone(r, enabled) ==
  /\ Commit(r.w)
  /\ last' = Op("setEmergencyMode", <<>>, "",
                Result(~r.throws, IF enabled THEN "on" ELSE "off"), "", <<>>,
                NoRecord, NotSearched)

SetEmergencyMode(enabled) ==
  /\ Begin
  /\ SetEmergencyModeDone(setEmergencyMode(World, enabled), enabled)
  /\ UNCHANGED <<ticks, sweep, inflight>>

\* POST /api/admin/refresh-cache: every entry is cleared, then the open
\* sessions and the roster are fetched; a throwing fetch ends the handler.
refreshSecond(f, outcome) ==
  IF Throws(f) THEN f ELSE getCachedSheetData(f.w, SHEET_EMPLOYEES, outcome)

refreshCache(w, o) ==
  refreshSecond(getCachedSheetData([w EXCEPT !.cache = clearCacheAll(@)],
                                   SHEET_ON_WORK, o.read),
                o.read2)

RefreshOutcomes ==
  {o \in [read : ReadOutcomes, read2 : ReadOutcomes] : Failures(o) <= 1}

RefreshCacheDone(f) ==
  /\ Commit(f.w)
  /\ last' = Op("refreshCache", <<>>, "", Result(~Throws(f), "refresh"), f.kind,
                <<>>, NoRecord, NotSearched)

RefreshCache(o) ==
  /\ Begin
  /\ RefreshCacheDone(refreshCache(World, o))
  /\ UNCHANGED <<ticks, sweep, inflight>>

\* checkAndHandleMissedCheckouts up to its loop: the open sessions are
\* fetched; a throwing fetch or an empty list ends the run.
SweepFetched(f) ==
  /\ Commit(f.w)
  /\ IF Throws(f) \/ Len(f.rows) = 0
     THEN sweep' = NoSweep
     ELSE sweep' = [active |-> TRUE, rows |-> f.rows, i |-> 1, deleted |-> 0,
                    cutoff |-> cutoffTime(now)]
  /\ last' = Op("sweepBegin", <<>>, SHEET_ON_WORK, Result(~Throws(f), "sweep"),
                f.kind, f.rows, NoRecord, NotSearched)

SweepBegin(outcome) ==
  /\ Begin
  /\ SweepFetched(getCachedSheetData(World, SHEET_ON_WORK, outcome))
  /\ UNCHANGED <<ticks, inflight>>

\* One turn of the loop of checkAndHandleMissedCheckouts.  The row objects
\* of the fetched list follow the rows deleted before them: the row at
\* position i of the list is now at position i - deleted of the sheet.
SweepRowDone(r, workRow, decision) ==
  /\ Commit(r.w)
  /\ sweep' = IF sweep.i = Len(sweep.rows) THEN NoSweep
              ELSE [sweep EXCEPT !.i = @ + 1,
                                 !.deleted = @ + (Len(onWorkSheet) - Len(r.w.onWork))]
  /\ last' = Op("sweepRow", sweepName(workRow), "", Result(r.success, decision),
                "", <<>>, workRow, NotSearched)

SweepRowDecided(workRow, decision, o) ==
  /\ decision # "process" => Failures(o) = 0
  /\ SweepRowDone(IF decision = "process"
                  THEN processMissedCheckout(World, workRow, sweep.i - sweep.deleted,
                                             sweep.cutoff, o.update, o.delete)
                  ELSE [w |-> World, success |-> FALSE],
                  workRow, decision)

SweepRow(o) ==
  /\ sweep.active
  /\ SweepRowDecided(sweep.rows[sweep.i], sweepDecision(sweep.rows[sweep.i], now), o)
  /\ UNCHANGED <<ticks, ops, inflight>>

\* Time passes.
Tick(d) ==
  /\ ~sweep.active
  /\ ticks < MaxTicks
  /\ now' = now + d
  /\ ticks' = ticks + 1
  /\ last' = Op("tick", <<>>, "", NoResult, "", <<>>, NoRecord, NotSearched)
  /\ UNCHANGED <<mainSheet, onWorkSheet, cache, emergencyMode, currentBurst,
                 apiCalls, ops, sweep, inflight>>

\* POST /api/clockin up to its await of sheetsService.clockIn: a denied
\* call is answered 429; a granted one is logged and stays in flight.
RouteAcquired(granted, employee) ==
  /\ Commit(IF granted
            THEN [World EXCEPT !.burst = @ + 1, !.calls = logAPICall(World)]
            ELSE World)
  /\ inflight' = IF granted THEN Append(inflight, employee) ELSE inflight
  /\ last' = Op("acquire", employee, "",
                Result(granted, IF granted THEN "acquired" ELSE "429"), "", <<>>,
                NoRecord, NotSearched)

RouteAcquire(employee) ==
  /\ ~sweep.active
  /\ RouteAcquired(canMakeAPICall(World), employee)
  /\ UNCHANGED <<ticks, ops, sweep>>

\* The rest of the i-th /api/clockin call in flight: sheetsService.clockIn
\* and then finishCall.
RouteFinished(r, employee) ==
  /\ Len(r.w.main) <= MaxRows
  /\ Commit([r.w EXCEPT !.burst = finishCall(@)])
  /\ last' = Op("release", employee, "", r.res, "", <<>>, NoRecord, NotSearched)

RouteFinish(i, o) ==
  /\ i \in 1..Len(inflight)
  /\ ~sweep.active
  /\ RouteFinished(clockIn(World, inflight[i], o), inflight[i])
  /\ inflight' = SubSeq(inflight, 1, i - 1) \o SubSeq(inflight, i + 1, Len(inflight))
  /\ UNCHANGED <<ticks, ops, sweep>>

\* The interval timer of the APIMonitor fires.
BurstResetNever ==
  /\ currentBurst > burstLimit
  /\ currentBurst' = 0
  /\ last' = Op("burstReset", <<>>, "", NoResult, "", <<>>, NoRecord, NotSearched)
  /\ UNCHANGED <<mainSheet, onWorkSheet, cache, emergencyMode, apiCalls, now,
                 ticks, ops, sweep, inflight>>

BurstReset ==
  /\ currentBurst > 0
  /\ currentBurst' = 0
  /\ last' = Op("burstReset", <<>>, "", NoResult, "", <<>>, NoRecord, NotSearched)
  /\ UNCHANGED <<mainSheet, onWorkSheet, cache, emergencyMode, apiCalls, now,
                 ticks, ops, sweep, inflight>>

\* Time passes while route calls may be in flight; the interval timer has
\* fired within it.
Elapse(d) ==
  /\ ~sweep.active
  /\ ticks < MaxElapses
  /\ now' = now + d
  /\ ticks' = ticks + 1
  /\ currentBurst' = 0
  /\ last' = Op("tick", <<>>, "", NoResult, "", <<>>, NoRecord, NotSearched)
  /\ UNCHANGED <<mainSheet, onWorkSheet, cache, emergencyMode, apiCalls, ops,
                 sweep, inflight>>

\* POST /api/check-status: a missing name is answered 400; else the status
\* is looked up and the open sessions are fetched once more for the
\* answer; a throwing fetch is answered 500.  session is the work record
\* found (NoRecord: not on work).
checkStatusList(s, f) ==
  [w |-> f.w,
   res |-> IF Throws(f) THEN Result(FALSE, "error")
           ELSE Result(TRUE, IF s.st.isOnWork THEN "on_work" ELSE "not_on_work"),
   session |-> s.st.workRecord]

checkStatusFrom(s, outcome) ==
  checkStatusList(s, getCachedSheetData(s.w, SHEET_ON_WORK, outcome))

checkStatus(w, employee, o) ==
  IF employee = <<>>
  THEN [w |-> w, res |-> Result(FALSE, "400"), session |-> NoRecord]
  ELSE checkStatusFrom(getEmployeeStatus(w, employee, o.read), o.read2)

CheckStatusDone(r, employee) ==
  /\ Commit(r.w)
  /\ last' = Op("checkStatus", employee, "", r.res, "", <<>>, r.session, NotSearched)

CheckStatus(employee, o) ==
  /\ Begin
  /\ CheckStatusDone(checkStatus(World, employee, o), employee)
  /\ UNCHANGED <<ticks, sweep, inflight>>

\* ------------------------------------------------------------------
\* Spec: the reconciler in sequential runs.  Handler calls follow one
\* another; any one remote call of a handler may fail (the geocoder
\* answers).
Next ==
  \/ \E e \in Names, o \in ClockInOutcomes({"ok"}) : ClockIn(e, o)
  \/ \E e \in Names, o \in ClockOutOutcomes({"ok"}) : ClockOut(e, o)
  \/ \E oc \in ReadOutcomes : Fetch(SHEET_MAIN, oc)
  \/ \E oc \in ReadOutcomes : SweepBegin(oc)
  \/ \E o \in SweepOutcomes : SweepRow(o)
  \/ Tick(5 * MINUTE_MS)

Spec == Init /\ [][Next]_vars

\* SpecConc: clockIn calls that overlap.  Every remote call succeeds; a
\* clockIn is suspended after its status check and resumed in any order.
AllOk(S) == {o \in S : Failures(o) = 0}

NextConc ==
  \/ \E e \in Names : ClockInCheck(e, "ok")
  \/ \E i \in 1..MaxOps, o \in AllOk(ClockInOutcomes({"ok"})) : ClockInWrite(i, o)
  \/ \E e \in Names, o \in AllOk(ClockOutOutcomes({"ok"})) : ClockOut(e, o)

SpecConc == Init /\ [][NextConc]_vars

\* SpecFetch: the fetch facade over the three datasets, with the clock
\* advancing past the shortest and past the longest base ttl, and one
\* employee clocking in so that the store changes under the cache.
NextFetch ==
  \/ \E o \in ClockInOutcomes({"ok"}) : ClockIn(<<"a">>, o)
  \/ \E sh \in Sheets, oc \in ReadOutcomes : Fetch(sh, oc)
  \/ \E sh \in Sheets, oc \in ReadOutcomes : SafeFetch(sh, oc)
  \/ \E o \in RefreshOutcomes : RefreshCache(o)
  \/ \E en \in BOOLEAN : SetEmergencyMode(en)
  \/ \E d \in {TTL_MAIN, TTL_DEFAULT} : Tick(d)

SpecFetch == Init /\ [][NextFetch]_vars

\* SpecEmergency: emergency mode among all the handlers.  One employee
\* clocks in and out, the sweeper runs, the three datasets are fetched
\* plainly and safely, the admin route switches the mode, and the clock
\* advances by one minute and by five.
NextEmergency ==
  \/ \E o \in ClockInOutcomes({"ok"}) : ClockIn(<<"a">>, o)
  \/ \E o \in ClockOutOutcomes({"ok"}) : ClockOut(<<"a">>, o)
  \/ \E sh \in Sheets, oc \in ReadOutcomes : Fetch(sh, oc)
  \/ \E sh \in Sheets, oc \in ReadOutcomes : SafeFetch(sh, oc)
  \/ \E oc \in ReadOutcomes : SweepBegin(oc)
  \/ \E o \in SweepOutcomes : SweepRow(o)
  \/ \E en \in BOOLEAN : SetEmergencyMode(en)
  \/ \E d \in {MINUTE_MS, TTL_DEFAULT} : Tick(d)

SpecEmergency == Init /\ [][NextEmergency]_vars

\* SpecLimiter: the call budget limiter under the /api/clockin route.
\* Calls acquire, stay in flight and finish in any order (or never); the
\* interval timer fires; the clock advances by a minute and by an hour.
NextLimiter ==
  \/ RouteAcquire(<<"a">>)
  \/ \E i \in 1..maxCallsPerHour, o \in AllOk(ClockInOutcomes({"ok"})) : RouteFinish(i, o)
  \/ BurstReset
  \/ \E d \in {MINUTE_MS, HOUR_MS} : Elapse(d)

SpecLimiter == Init /\ [][NextLimiter]_vars

\* SpecLimiterFair: the event loop runs the interval timer whenever it is
\* due.
SpecLimiterFair == SpecLimiter /\ WF_vars(BurstReset)

\* SpecOverlap: calls of getCachedSheetData that overlap.  A call is
\* suspended at its remote read and the reads end in any order, each well,
\* with a quota error or with another error; no timer fires; the clock
\* advances past the longest base ttl.
NextOverlap ==
  \/ \E sh \in Sheets : FetchStart(sh)
  \/ \E i \in 1..burstLimit, oc \in ReadOutcomes : FetchComplete(i, oc)
  \/ Tick(TTL_DEFAULT)

SpecOverlap == Init /\ [][NextOverlap]_vars

\* SpecStale: reads of the open sessions that overlap a clockIn.  A call
\* of getCachedSheetData('ON WORK') is suspended at its remote read while
\* employees clock in and their status is asked for; every remote call
\* succeeds.
NextStale ==
  \/ FetchStart(SHEET_ON_WORK)
  \/ \E i \in 1..burstLimit : FetchComplete(i, "ok")
  \/ \E e \in Names, o \in AllOk(ClockInOutcomes({"ok"})) : ClockIn(e, o)
  \/ \E e \in Names : CheckStatus(e, [read |-> "ok", read2 |-> "ok"])

SpecStale == Init /\ [][NextStale]_vars

\* SpecTwice: clockOut calls that overlap.  Two employees whose names do
\* not match each other clock in; a clockOut is suspended after its status
\* check and the calls in flight resume in any order; every remote call
\* succeeds; the clock advances by five minutes.
NextTwice ==
  \/ \E e \in {<<"a">>, <<"c">>}, o \in AllOk(ClockInOutcomes({"ok"})) : ClockIn(e, o)
  \/ \E e \in {<<"a">>, <<"c">>}, o \in AllOk(ClockOutOutcomes({"ok"})) :
       ClockOutCheck(e, o)
  \/ \E i \in 1..MaxOps, o \in AllOk(ClockOutOutcomes({"ok"})) : ClockOutWrite(i, o)
  \/ Tick(5 * MINUTE_MS)

SpecTwice == Init /\ [][NextTwice]_vars

\* The state after construction at the instant t when the remote sheets
\* hold the rows main and onWork.
BootedAt(main, onWork, t) ==
  /\ mainSheet = main
  /\ onWorkSheet = onWork
  /\ cache = InitialCache
  /\ emergencyMode = FALSE
  /\ currentBurst = 0
  /\ apiCalls = <<>>
  /\ now = t
  /\ ticks = 0
  /\ ops = 0
  /\ sweep = NoSweep
  /\ inflight = <<>>
  /\ last = Op("boot", <<>>, "", NoResult, "", <<>>, NoRecord, NotSearched)

Booted(main, onWork) == BootedAt(main, onWork, BootTime)

\* SpecSweep: the reconciler and the sweeper around midnight.  The server
\* boots on 19/11/2026 at 22:00:01; the sheets are empty, or hold one open
\* ledger row dated 26/11/2026 and its session, written without a row
\* number (both row-reference cells empty); employees clock in at
\* the current time or with a mock_time of 26/11/2026 08:00:00, clock out,
\* the sweeper runs, and the clock advances by eight hours into 20/11/2026.
SweepBootTime == 7 * DAY_MS + 22 * HOUR_MS + BootTime
MockTimes == {14 * DAY_MS + 8 * HOUR_MS}

InitSweep ==
  \/ BootedAt(<<>>, <<>>, SweepBootTime)
  \/ \E t \in MockTimes :
       BootedAt(<<NewLedgerRow(<<"a">>, t, "", "place")>>,
                <<NewSessionRow(<<"a">>, t, 0)>>, SweepBootTime)

NextSweep ==
  \/ \E e \in Names, o \in AllOk(ClockInOutcomes({"ok"})) : ClockIn(e, o)
  \/ \E e \in Names, t \in MockTimes, o \in AllOk(ClockInOutcomes({"ok"})) :
       ClockInMock(e, t, o)
  \/ \E e \in Names, o \in ClockOutOutcomes({"ok"}) : ClockOut(e, o)
  \/ \E oc \in ReadOutcomes : SweepBegin(oc)
  \/ \E o \in SweepOutcomes : SweepRow(o)
  \/ Tick(8 * HOUR_MS)

SpecSweep == InitSweep /\ [][NextSweep]_vars

\* SpecLocate: the four stages of clockOut over ledgers that were there at
\* boot.  The ledger holds LedgerLen rows, each open or closed, of an
\* employee matching the request and clocked in one hour before boot or 4
\* or 10 minutes after that, or of another employee; one session of <<"a">>, clocked in one hour
\* before boot, stores no row number, one inside the ledger, or one beyond
\* it.  The server boots on 12/11/2026 or on 20/11/2026, at noon.  The
\* reads of clockOut succeed; its cell update or its delete may fail.
LedgerLen == 3

ClosedRow(row, timestamp) ==
  [row EXCEPT !.clockOut = timestamp, !.exitCoords = "lat,lon",
              !.exitLoc = "place",
              !.hours = toFixed2(calculateWorkingHours(row.clockIn, timestamp))]

LocateLedgers(t) ==
  LET opened == {NewLedgerRow(<<"A", "b">>, t - HOUR_MS + d, "", "place") :
                   d \in {0, 4 * MINUTE_MS, 10 * MINUTE_MS}}
                 \cup {NewLedgerRow(<<"c">>, t - HOUR_MS, "", "place")}
  IN [1..LedgerLen -> opened \cup {ClosedRow(r, t - 30 * MINUTE_MS) : r \in opened}]

InitLocate ==
  \E t \in {12 * HOUR_MS, 8 * DAY_MS + 12 * HOUR_MS}, mainRowIndex \in {0, 2, 3, LedgerLen + 2} :
    \E main \in LocateLedgers(t) :
      BootedAt(main, <<NewSessionRow(<<"a">>, t - HOUR_MS, mainRowIndex)>>, t)

NextLocate ==
  \E o \in {x \in ClockOutOutcomes({"ok"}) : x.read = "ok" /\ x.read2 = "ok"} :
    ClockOut(<<"a">>, o)

SpecLocate == InitLocate /\ [][NextLocate]_vars

\* SpecMatch: the name matcher under POST /api/check-status.  The sheets
\* hold one open session, recorded under any of the names below, and the
\* status of any of the names is asked for; every remote read succeeds.
MatchNames ==
  {<<>>, <<" ">>, <<"a">>, <<"A">>, <<"b">>, <<"a", "b">>, <<"A", "b">>,
   <<"a", " ", "b">>, <<"A", " ", " ", "B">>, <<" ", "a", "b", " ">>,
   <<"c", "a", "b">>, <<"b", "a">>}

InitMatch ==
  \E b \in MatchNames :
    Booted(<<NewLedgerRow(b, BootTime, "", "place")>>,
           <<NewSessionRow(b, BootTime, 2)>>)

NextMatch ==
  \E a \in MatchNames : CheckStatus(a, [read |-> "ok", read2 |-> "ok"])

SpecMatch == InitMatch /\ [][NextMatch]_vars

\* ============================================================ claims
\* The open sessions recorded for exactly the employee name e.
SessionsOf(rows, e) == {i \in 1..Len(rows) : rows[i].employeeName = e}

\* The ledger rows with no clock-out value whose name matches e.
OpenRowsFor(rows, e) ==
  {i \in 1..Len(rows) : rows[i].clockOut = NoTime /\ isNameMatch(e, rows[i].employee)}

\* ------------------------------------------------------------------ C1
\* C1: in every reachable state the open-session table holds at most one
\* open session per employee name, also when clockIn calls for the same
\* employee overlap.
C1_OneOpenSessionPerEmployee ==
  \A e \in Names : Cardinality(SessionsOf(onWorkSheet, e)) <= 1

\* Two clockIn calls for one employee have both passed the status check.
C1_Overlap ==
  \E i, j \in 1..Len(inflight) : i # j /\ inflight[i] = inflight[j]

\* ------------------------------------------------------------------ C2
\* C2: a clockIn for an employee who has an open session in the table is
\* rejected as already clocked in and appends nothing to either sheet,
\* whatever the cache, the limiter and the remote reads do.
C2_ReentrantClockInRejected ==
  [][(last'.op = "clockIn" /\ SessionsOf(onWorkSheet, last'.employee) # {})
       => /\ last'.res.message = "already_clocked_in"
          /\ mainSheet' = mainSheet
          /\ onWorkSheet' = onWorkSheet]_vars

\* ------------------------------------------------------------------ C3
\* The ledger holds exactly one open row matching e, it carries the name e,
\* and the table holds an open session of e.
C3_OneOpenRow(e) ==
  /\ Cardinality(OpenRowsFor(mainSheet, e)) = 1
  /\ \A i \in OpenRowsFor(mainSheet, e) : mainSheet[i].employee = e
  /\ SessionsOf(onWorkSheet, e) # {}

\* C3: with exactly one open ledger row for X and an open session of X, a
\* clockOut(X) that succeeds closes that row and changes no other row.
C3_ClosesTheOpenRow ==
  [][(last'.op = "clockOut" /\ last'.res.success /\ C3_OneOpenRow(last'.employee))
       => /\ Len(mainSheet') = Len(mainSheet)
          /\ \A i \in 1..Len(mainSheet) :
               IF i \in OpenRowsFor(mainSheet, last'.employee)
               THEN mainSheet'[i].clockOut # NoTime
               ELSE mainSheet'[i] = mainSheet[i]]_vars

\* ------------------------------------------------------------------ C4
\* Some stage yields a row of the searched rows: the row at the session's
\* stored index carries a matching name (stage 1), or some row with no
\* clock-out value carries one (stages 2 to 4).
SomeStageYields(rows, session, e) ==
  \/ /\ session.mainRowIndex > 1
     /\ session.mainRowIndex - 1 <= Len(rows)
     /\ isNameMatch(e, rows[session.mainRowIndex - 1].employee)
  \/ OpenRowsFor(rows, e) # {}

\* C4: clockOut answers 'no matching record' exactly when it searched the
\* ledger and no stage yields a row, and it then changes neither sheet.
C4_NoMatchExactly ==
  [][last'.op = "clockOut"
       => /\ (last'.res.message = "no_matching_record")
               <=> (/\ last'.found # NotSearched
                    /\ ~SomeStageYields(last'.rows, last'.session, last'.employee))
          /\ (last'.res.message = "no_matching_record")
               => (mainSheet' = mainSheet /\ onWorkSheet' = onWorkSheet)]_vars

\* A clockOut of an employee with an open session found no ledger row.
C4_NoMatchReached ==
  /\ last.op = "clockOut"
  /\ last.res.message = "no_matching_record"
  /\ last.session.mainRowIndex > 1

\* ------------------------------------------------------------------ C5
\* The fields of a ledger row that clockOut does not write.
SameEntry(r1, r2) ==
  /\ r1.employee = r2.employee
  /\ r1.clockIn = r2.clockIn
  /\ r1.note = r2.note
  /\ r1.entryLoc = r2.entryLoc

\* C5: a successful clockOut leaves the number of ledger rows, every field
\* of every row but the located one, and the employee, clock-in, note and
\* entry fields of the located row as they were.
C5_WritesOnlyClockOutFields ==
  [][(last'.op = "clockOut" /\ last'.res.success)
       => /\ Len(mainSheet') = Len(mainSheet)
          /\ last'.found.row \in 1..Len(mainSheet)
          /\ \A i \in 1..Len(mainSheet) :
               IF i = last'.found.row
               THEN SameEntry(mainSheet'[i], mainSheet[i])
               ELSE mainSheet'[i] = mainSheet[i]]_vars

\* A clockOut succeeded on a ledger of two rows and closed one of them.
C5_ClosedOneOfTwo ==
  /\ last.op = "clockOut"
  /\ last.res.success
  /\ Len(mainSheet) = 2
  /\ mainSheet[last.found.row].clockOut # NoTime
  /\ \E i \in 1..2 : mainSheet[i].clockOut = NoTime

\* ------------------------------------------------------------------ C6
\* C6: no step removes a ledger row or changes the employee, clock-in or
\* entry-location of one; a step that adds rows is a clockIn adding one row
\* whose clock-out, exit and hours fields are empty.
C6_LedgerOnlyGrows ==
  [][/\ Len(mainSheet') >= Len(mainSheet)
     /\ \A i \in 1..Len(mainSheet) :
          /\ mainSheet'[i].employee = mainSheet[i].employee
          /\ mainSheet'[i].clockIn = mainSheet[i].clockIn
          /\ mainSheet'[i].entryLoc = mainSheet[i].entryLoc
     /\ Len(mainSheet') > Len(mainSheet)
          => /\ last'.op = "clockIn"
             /\ Len(mainSheet') = Len(mainSheet) + 1
             /\ mainSheet'[Len(mainSheet')].clockOut = NoTime
             /\ mainSheet'[Len(mainSheet')].exitCoords = ""
             /\ mainSheet'[Len(mainSheet')].exitLoc = ""
             /\ mainSheet'[Len(mainSheet')].hours = NoHours]_vars

\* The sweeper has force-closed a ledger row beside an open one.
C6_SweptBesideOpen ==
  /\ last.op = "sweepRow"
  /\ last.res.success
  /\ \E i \in 1..Len(mainSheet) : mainSheet[i].note = missedCheckoutNote
  /\ \E i \in 1..Len(mainSheet) : mainSheet[i].clockOut = NoTime

\* ------------------------------------------------------------------ C7
\* C7: a clockIn call leaves behind either both a new ledger row and a new
\* session that stores its row number, or neither.
C7_SessionAtomicWithEntry ==
  [][last'.op = "clockIn"
       => \/ (mainSheet' = mainSheet /\ onWorkSheet' = onWorkSheet)
          \/ /\ Len(mainSheet') = Len(mainSheet) + 1
             /\ Len(onWorkSheet') = Len(onWorkSheet) + 1
             /\ onWorkSheet'[Len(onWorkSheet')].employeeName = last'.employee
             /\ onWorkSheet'[Len(onWorkSheet')].mainRowIndex = Len(mainSheet') + 1]_vars

\* ------------------------------------------------------------------ C8
\* C8: when clockOut has returned success for an employee, the table holds
\* no open session of that employee.
C8_SessionGoneAfterClockOut ==
  (last.op = "clockOut" /\ last.res.success)
    => SessionsOf(onWorkSheet, last.employee) = {}

\* ------------------------------------------------------------------ C9
\* The entry fetch uses for a sheet, and how a fetch that made a remote
\* call ends.
EntryOf(sheetName) == cache[cacheKeyOf(sheetName)]
RemoteKinds == {"fresh", "quota_stale", "throw"}

\* The entry holds a payload set at some instant and not invalidated since.
Stored(c) == c.present /\ c.has /\ c.timestamp # 0
WithinTTL(c) == Stored(c) /\ now - c.timestamp < c.ttl
Expired(c) == Stored(c) /\ now - c.timestamp >= c.ttl

\* A fetch within the ttl returns the cached payload, makes no remote call
\* and changes nothing of the limiter.
FreshHit ==
  (last'.op = "fetch" /\ WithinTTL(EntryOf(last'.sheet)))
    => /\ last'.kind = "hit"
       /\ last'.rows = EntryOf(last'.sheet).rows
       /\ apiCalls' = apiCalls
       /\ currentBurst' = currentBurst

\* C9 as stated: a fetch within the ttl is served from the cache, and a
\* fetch after the ttl has expired makes a remote call.
C9_ExpiredAlwaysRemote ==
  [][/\ FreshHit
     /\ (last'.op = "fetch" /\ Expired(EntryOf(last'.sheet)))
          => (last'.kind \in RemoteKinds /\ apiCalls' # apiCalls)]_vars

\* C9, amended: a fetch within the ttl is served from the cache, and a
\* fetch after the ttl has expired makes a remote call when the limiter
\* grants the acquisition, and none when it denies it.
C9_CacheFreshness ==
  [][/\ FreshHit
     /\ (last'.op = "fetch" /\ Expired(EntryOf(last'.sheet)))
          => IF canMakeAPICall(World)
             THEN last'.kind \in RemoteKinds /\ apiCalls' # apiCalls
             ELSE last'.kind \notin RemoteKinds /\ apiCalls' = apiCalls]_vars

\* A fetch of the ledger was served from the cache while the remote ledger
\* had a row the cached payload lacks.
C9_HitBesideNewerStore ==
  /\ last.op = "fetch"
  /\ last.kind = "hit"
  /\ last.sheet = SHEET_MAIN
  /\ last.rows # mainSheet

\* ----------------------------------------------------------------- C10
\* C10: a fetch on an entry that is not valid, when the limiter denies the
\* acquisition, makes no remote call, leaves burst count, call log, cache
\* and store as they were, and returns the payload of the entry if it has
\* one, else throws the rate-limit error.
C10_DeniedFetch ==
  [][(/\ last'.op = "fetch"
      /\ ~WithinTTL(EntryOf(last'.sheet))
      /\ ~canMakeAPICall(World))
       => /\ apiCalls' = apiCalls
          /\ currentBurst' = currentBurst
          /\ cache' = cache
          /\ mainSheet' = mainSheet /\ onWorkSheet' = onWorkSheet
          /\ IF EntryOf(last'.sheet).present /\ EntryOf(last'.sheet).has
             THEN /\ last'.kind = "limited_stale"
                  /\ last'.res.success
                  /\ last'.rows = EntryOf(last'.sheet).rows
             ELSE /\ last'.kind = "limited_throw"
                  /\ ~last'.res.success]_vars

\* A denied fetch returned a stale payload after the entry had expired.
C10_DeniedStale ==
  /\ last.op = "fetch"
  /\ last.kind = "limited_stale"
  /\ ticks > 0

\* ----------------------------------------------------------------- C11
\* The fetch of sheetName goes to the store: its entry is not valid and
\* the limiter grants the call.
GoesRemote(sheetName) ==
  ~isCacheValid(World, cacheKeyOf(sheetName)) /\ canMakeAPICall(World)

\* C11: when the remote read of a fetch fails with a quota-class error,
\* the fetch returns the payload its entry holds (expired or not) if there
\* is one, and else propagates the failure.
C11_QuotaStaleFallback ==
  [][\A sh \in Sheets :
       (Fetch(sh, "quota") /\ GoesRemote(sh))
         => IF EntryOf(sh).present /\ EntryOf(sh).has
            THEN /\ last'.res.success
                 /\ last'.kind = "quota_stale"
                 /\ last'.rows = EntryOf(sh).rows
            ELSE /\ ~last'.res.success
                 /\ last'.kind = "throw"]_vars

\* A fetch fell back to a payload that had expired.
C11_StaleServed ==
  /\ last.op = "fetch" /\ last.kind = "quota_stale"
  /\ Expired(EntryOf(last.sheet))

\* ----------------------------------------------------------------- C12
\* C12: when the remote read of a fetch fails with an error that is not
\* quota-class, the fetch propagates the failure even if its entry holds a
\* payload, and the cache is left as it was.
C12_OtherErrorPropagates ==
  [][\A sh \in Sheets :
       (Fetch(sh, "error") /\ GoesRemote(sh))
         => /\ ~last'.res.success
            /\ last'.kind = "throw"
            /\ cache' = cache]_vars

\* A fetch threw although its entry holds a payload.
C12_ThrownBesideStale ==
  /\ last.op = "fetch" /\ last.kind = "throw"
  /\ EntryOf(last.sheet).present /\ EntryOf(last.sheet).has

\* ----------------------------------------------------------------- C13
\* C13: the safe fetch never raises; when the fetch under it fails it
\* leaves EmergencyMode on and returns the payload its entry holds if
\* there is one, and else an empty list.
C13_SafeFetchNeverRaises ==
  [][\A sh \in Sheets, oc \in ReadOutcomes :
       SafeFetch(sh, oc)
         => /\ last'.res.success
            /\ Throws(getCachedSheetData(World, sh, oc))
                 => /\ emergencyMode'
                    /\ last'.rows = IF EntryOf(sh).present /\ EntryOf(sh).has
                                    THEN EntryOf(sh).rows ELSE <<>>]_vars

\* A safe fetch whose fetch failed returned the old payload and turned
\* EmergencyMode on.
C13_EmergencyServed ==
  /\ last.op = "safeFetch" /\ last.kind = "emergency"
  /\ emergencyMode
  /\ last.rows # <<>>

\* ----------------------------------------------------------------- C14
\* C14: EmergencyMode, once on, is turned off by nothing but an explicit
\* setEmergencyMode(false): it stays on through fetches, successful remote
\* reads, clock-ins, clock-outs and sweeps.
C14_EmergencyOffOnlyExplicitly ==
  [][(emergencyMode /\ ~emergencyMode')
       => (last'.op = "setEmergencyMode" /\ last'.res.message = "off")]_vars

\* EmergencyMode is on after a remote read that succeeded.
C14_OnAfterSuccessfulRead ==
  /\ emergencyMode
  /\ last.op \in {"fetch", "safeFetch"} /\ last.kind = "fresh"

\* ----------------------------------------------------------------- C15
\* C15: enabling emergency mode gives every entry of the cache the
\* degraded ttl, and disabling it afterwards does not raise and gives
\* every entry the ttl it had before the mode was enabled, whichever
\* entries the cache holds.
C15_EnableDisableRestoresTTL ==
  [][(SetEmergencyMode(TRUE) /\ ~emergencyMode)
       => /\ \A k \in CacheKeys :
               cache'[k].present => cache'[k].ttl = TTL_EMERGENCY
          /\ ~setEmergencyMode(World', FALSE).throws
          /\ \A k \in CacheKeys :
               cache[k].present
                 => setEmergencyMode(World', FALSE).w.cache[k].ttl = cache[k].ttl]_vars

\* Emergency mode was enabled and then disabled by the admin route, and
\* the disabling raised.
C15_DisableRaised ==
  /\ last.op = "setEmergencyMode" /\ last.res.message = "off"
  /\ ~last.res.success
  /\ \E k \in CacheKeys : cache[k].present /\ cache[k].ttl = TTL_EMERGENCY

\* ----------------------------------------------------------------- C16
\* The ttl the configuration gives the dataset of sheetName.
BaseTTL(sheetName) ==
  CASE sheetName = SHEET_EMPLOYEES -> TTL_EMPLOYEES
    [] sheetName = SHEET_ON_WORK -> TTL_ONWORK_CAMEL
    [] sheetName = SHEET_MAIN -> TTL_MAIN

\* C16: while EmergencyMode is on, every entry fetch reads or writes has
\* the degraded one-hour ttl, an entry first created by a fetch made
\* while the mode is on included; while it is off every such entry has
\* its base ttl.
C16_TTLFollowsMode ==
  \A sh \in Sheets :
    EntryOf(sh).present
      => EntryOf(sh).ttl = IF emergencyMode THEN TTL_EMERGENCY ELSE BaseTTL(sh)

\* A fetch made while the mode is on created its entry, with the default
\* ttl.
C16_CreatedWhileOn ==
  /\ emergencyMode
  /\ last.op \in {"fetch", "safeFetch"} /\ last.kind = "fresh"
  /\ EntryOf(last.sheet).ttl = TTL_DEFAULT

\* ----------------------------------------------------------------- C17
\* The open-sessions entry holds a payload stored a minute ago or longer.
OnWorkStoredAMinuteAgo ==
  /\ Stored(EntryOf(SHEET_ON_WORK))
  /\ now - EntryOf(SHEET_ON_WORK).timestamp >= TTL_ONWORK_CAMEL

\* C17: outside emergency mode the entries fetch uses carry the configured
\* ttls; in particular an open-sessions payload stored by fetch is no
\* longer served from the cache one minute after it was stored, from the
\* first fetch after boot onward.
C17_OpenSessionsExpireInOneMinute ==
  [][(/\ last'.op \in {"fetch", "safeFetch"}
      /\ last'.sheet = SHEET_ON_WORK
      /\ ~emergencyMode
      /\ OnWorkStoredAMinuteAgo)
       => last'.kind # "hit"]_vars

\* Outside emergency mode a fetch was served the open-sessions payload
\* from the cache a minute or longer after it was stored.
C17_HitAfterOneMinute ==
  /\ last.op \in {"fetch", "safeFetch"} /\ last.kind = "hit"
  /\ last.sheet = SHEET_ON_WORK
  /\ ~emergencyMode
  /\ EntryOf(SHEET_ON_WORK).ttl = TTL_DEFAULT
  /\ OnWorkStoredAMinuteAgo

\* ----------------------------------------------------------------- C18
\* The number of calls logged in the trailing minute / hour.
LoggedInLastMinute == CountRecent(apiCalls, now, MINUTE_MS)
LoggedInLastHour == CountRecent(apiCalls, now, HOUR_MS)

\* C18: an acquisition is denied exactly when the burst count is at or
\* above the burst ceiling, or the calls logged in the trailing 60 s are at
\* or above the per-minute ceiling, or the calls logged in the trailing
\* 3600 s are at or above the per-hour ceiling; otherwise it is granted,
\* the burst count goes up by one and an entry stamped now is logged.
C18_DeniedExactlyAtCeilings ==
  [][last'.op = "acquire"
       => /\ ~last'.res.success
               <=> \/ currentBurst >= burstLimit
                   \/ LoggedInLastMinute >= maxCallsPerMinute
                   \/ LoggedInLastHour >= maxCallsPerHour
          /\ last'.res.success
               => /\ currentBurst' = currentBurst + 1
                  /\ Len(apiCalls') > 0
                  /\ apiCalls'[Len(apiCalls')] = now]_vars

\* An acquisition was denied with the burst count at zero and no call
\* logged in the trailing hour.
C18_DeniedByOldEntries ==
  /\ last.op = "acquire" /\ ~last.res.success
  /\ currentBurst = 0
  /\ LoggedInLastHour = 0

\* ----------------------------------------------------------------- C19
\* Every call in the log is older than a minute.
LoggedCallsAgedOut == apiCalls # <<>> /\ LoggedInLastMinute = 0

C21_InFlightWithinBurst == Len(inflight) <= burstLimit

\* A call acquired the limiter while as many calls as the burst ceiling
\* were in flight already.
C21_AcquiredBeyondBurst ==
  /\ last.op = "acquire" /\ last.res.success
  /\ Len(inflight) > burstLimit

\* ----------------------------------------------------------------- C22
\* The normalized forms of a and b are equal or one contains the other.
NormalizedContainment(a, b) ==
  \/ normalizeEmployeeName(a) = normalizeEmployeeName(b)
  \/ Includes(normalizeEmployeeName(a), normalizeEmployeeName(b))
  \/ Includes(normalizeEmployeeName(b), normalizeEmployeeName(a))

\* C22 as stated: a name matches the recorded name exactly when their
\* normalized forms (trimmed, inner whitespace collapsed, lower-cased) are
\* equal or one contains the other.
C22_MatchIsNormalizedContainment ==
  [][(last'.op = "checkStatus" /\ last'.employee # <<>>)
       => (last'.session # NoRecord
             <=> NormalizedContainment(last'.employee,
                                       onWorkSheet[1].employeeName))]_vars

\* C22, amended: a name matches the recorded name exactly when neither is
\* missing or empty and their normalized forms are equal or one contains
\* the other.
C22_MatchOfNonEmptyNames ==
  [][(last'.op = "checkStatus" /\ last'.employee # <<>>)
       => (last'.session # NoRecord
             <=> /\ onWorkSheet[1].employeeName # <<>>
                 /\ NormalizedContainment(last'.employee,
                                           onWorkSheet[1].employeeName))]_vars

\* A name was matched to a recorded name that differs from it in case and
\* spacing, and is longer than it.
C22_MatchedAcrossCaseAndSpacing ==
  /\ last.op = "checkStatus" /\ last.session # NoRecord
  /\ last.employee = <<"b">>
  /\ last.session.employeeName = <<"A", " ", " ", "B">>

\* ----------------------------------------------------------------- C23
\* The worked time between two instants in hundredths of an hour, 0 when
\* the second is earlier than the first.
ElapsedHours(from, to) ==
  IF to < from THEN 0 ELSE toFixed2((to - from) \div 1000)

\* The ledger position a session's stored row number stands for.
EntryPos(session) == session.mainRowIndex - 1

\* C23: the worked hours a successful clockOut or forced close has written
\* are 0 when the clock-out instant is earlier than the session's clock-in
\* instant, and otherwise the elapsed time between the two instants.
C23_HoursAreElapsedTime ==
  /\ (last.op = "clockOut" /\ last.res.success)
       => mainSheet[last.found.row].hours
            = ElapsedHours(last.session.clockIn, mainSheet[last.found.row].clockOut)
  /\ (last.op = "sweepRow" /\ last.res.success
        /\ EntryPos(last.session) \in 1..Len(mainSheet))
       => mainSheet[EntryPos(last.session)].hours
            = ElapsedHours(last.session.clockIn,
                           mainSheet[EntryPos(last.session)].clockOut)

\* A session opened before midnight was clocked out after midnight.
C23_ClockedOutAfterMidnight ==
  /\ last.op = "clockOut"
  /\ last.res.success
  /\ DayOf(last.session.clockIn) < DayOf(mainSheet[last.found.row].clockOut)

\* ----------------------------------------------------------------- C24
\* The session a turn of the sweeper looks at was clocked in on the day of
\* the run.
ClockedInToday(session) ==
  session.clockIn # NoTime /\ DayOf(session.clockIn) = DayOf(now)

\* C24: a turn of the sweeper on the session of an exempt employee leaves
\* both sheets as they were, and a turn on the session of a non-exempt
\* employee clocked in on the current date force-closes it.
C24_SweepClosesTodaysSessions ==
  [][last'.op = "sweepRow"
       => /\ isEmployeeExempt(last'.employee)
               => /\ last'.res.message = "exempt"
                  /\ mainSheet' = mainSheet
                  /\ onWorkSheet' = onWorkSheet
          /\ (~isEmployeeExempt(last'.employee) /\ ClockedInToday(last'.session))
               => last'.res.message = "process"]_vars

\* The sweeper has looked at the session of a non-exempt employee clocked
\* in on the day of the run.
C24_SweptTodaysSession ==
  /\ last.op = "sweepRow"
  /\ ~isEmployeeExempt(last.employee)
  /\ ClockedInToday(last.session)

\* ----------------------------------------------------------------- C25
\* C25: a turn of the sweeper on a session whose clock-in date is not the
\* date of the run leaves the open-session table and the ledger as they
\* were.
C25_OtherDaysUntouched ==
  [][(last'.op = "sweepRow" /\ last'.session.clockIn # NoTime
        /\ DayOf(last'.session.clockIn) # DayOf(now))
       => /\ mainSheet' = mainSheet
          /\ onWorkSheet' = onWorkSheet]_vars

\* The sweeper has looked at a session clocked in on another day.
C25_SweptOtherDay ==
  /\ last.op = "sweepRow"
  /\ last.session.clockIn # NoTime
  /\ DayOf(last.session.clockIn) # DayOf(now)

\* ----------------------------------------------------------------- C26
\* C26: a clockIn or clockOut call one of whose remote writes failed (its
\* reads having succeeded) returns success = false; both always return a
\* result.
C26_WriteFailuresReported ==
  [][/\ (last'.op = "clockIn" /\ last'.res.success)
          => \A o \in ClockInOutcomes({"ok"}) :
               (o.read = "ok" /\ ClockIn(last'.employee, o)) => Failures(o) = 0
     /\ (last'.op = "clockOut" /\ last'.res.success)
          => \A o \in ClockOutOutcomes({"ok"}) :
               (o.read = "ok" /\ o.read2 = "ok" /\ ClockOut(last'.employee, o))
                 => Failures(o) = 0]_vars

\* clockOut returned success and the session it found is still in the
\* open-session table.
C26_SuccessBesideFailedDelete ==
  /\ last.op = "clockOut"
  /\ last.res.success
  /\ last.session.pos \in 1..Len(onWorkSheet)
  /\ onWorkSheet[last.session.pos].clockIn = last.session.clockIn
  /\ onWorkSheet[last.session.pos].employeeName = last.session.employeeName

\* ----------------------------------------------------------------- C27
\* The stored row number of session stands for a position inside rows, and
\* the name there matches e.
IndexMatches(rows, session, e) ==
  /\ EntryPos(session) \in 1..Len(rows)
  /\ isNameMatch(e, rows[EntryPos(session)].employee)

\* C27: a clockOut that searched the ledger settled by stage 1 exactly when
\* the stored row number stands for a row inside the fetched ledger whose
\* name matches the input, and then on that row; otherwise a later stage
\* decided, on an open row of a matching name, stage 2 exactly when there
\* is one such row, and no stage found a row exactly when there is none.
C27_StageOneThenLaterStages ==
  (last.op = "clockOut" /\ last.found.stage # -1)
    => /\ last.found.stage = 1
            <=> IndexMatches(last.rows, last.session, last.employee)
       /\ last.found.stage = 1 => last.found.row = EntryPos(last.session)
       /\ last.found.stage \in 2..4
            => last.found.row \in OpenRowsFor(last.rows, last.employee)
       /\ last.found.stage = 2
            <=> /\ ~IndexMatches(last.rows, last.session, last.employee)
                /\ Cardinality(OpenRowsFor(last.rows, last.employee)) = 1
       /\ last.found.stage = 0
            <=> /\ ~IndexMatches(last.rows, last.session, last.employee)
                /\ OpenRowsFor(last.rows, last.employee) = {}

\* The stored row number stood for a row of another name, and a later
\* stage found the row.
C27_NameMismatchAtIndex ==
  /\ last.op = "clockOut"
  /\ last.found.stage \in 2..4
  /\ EntryPos(last.session) \in 1..Len(last.rows)

\* ----------------------------------------------------------------- C28
\* The time between the clock-in of ledger row i and that of the session.
ClockInGap(rows, i, session) == Abs(rows[i].clockIn - session.clockIn)

\* Stage 1 yielded nothing and several open rows match the name.
SeveralCandidates ==
  /\ last.op = "clockOut"
  /\ last.found.stage # -1
  /\ ~IndexMatches(last.rows, last.session, last.employee)
  /\ Cardinality(OpenRowsFor(last.rows, last.employee)) > 1

EntriesOf(main, session) ==
  IF session.mainRowIndex # 0
  THEN {EntryPos(session)} \cap (1..Len(main))
  ELSE {i \in 1..Len(main) : /\ main[i].employee = session.employeeName
                              /\ main[i].clockIn = session.clockIn}

C30_ReleasedExactlyOnce ==
  /\ currentBurst = Len(inflight)
  /\ currentBurst >= 0

\* A fetch has ended in the catch block, two fetches have acquired so far,
\* and none is in flight any more.
C30_AllCompletedAfterFailure ==
  /\ last.op = "fetch"
  /\ last.kind \in {"throw", "quota_stale"}
  /\ inflight = <<>>
  /\ Len(apiCalls) >= 2

\* ----------------------------------------------------------------- C31
\* C31: after a clockIn or clockOut that returned success the cache
\* entries of the open sessions, the ledger and the stats hold no payload,
\* and the roster entry is as it was before the call.
C31_SuccessInvalidates ==
  [][(last'.op \in {"clockIn", "clockOut"} /\ last'.res.success)
       => /\ \A k \in {"onwork", "main", "stats"} : ~cache'[k].has
          /\ cache'["employees"] = cache["employees"]]_vars

\* clockOut returned success and the ledger entry of the cache still holds
\* the rows fetched before the update.
C31_SuccessBesideCachedLedger ==
  /\ last.op = "clockOut"
  /\ last.res.success
  /\ cache["main"].has
  /\ cache["main"].rows # mainSheet

\* ----------------------------------------------------------------- C32
\* C32: time heals every denial: once the burst count is 0 and no call was
\* logged in the trailing hour (so none in the trailing minute), an
\* acquisition is granted.
C32_NoPermanentLockout ==
  (currentBurst = 0 /\ LoggedInLastHour = 0) => canMakeAPICall(World)

\* The per-hour ceiling of calls was logged more than an hour ago, and an
\* acquisition has just been denied.
C32_DeniedAnHourLater ==
  /\ last.op = "acquire"
  /\ ~last.res.success
  /\ currentBurst = 0
  /\ Len(apiCalls) = maxCallsPerHour
  /\ LoggedInLastHour = 0

\* ----------------------------------------------------------------- C33
\* C33: a read of the open sessions that was in flight while a clockIn
\* succeeded does not, on completing right after it, leave a valid cache
\* entry that differs from the rows of the store.
C33_InvalidationNotUndone ==
  [][(/\ last.op = "clockIn" /\ last.res.success
      /\ last'.op = "fetch" /\ last'.sheet = SHEET_ON_WORK)
       => ~(/\ isCacheValid(World', "onwork")
            /\ cache'["onwork"].rows # onWorkSheet')]_vars

\* Reached: the status of an employee with an open session was answered
\* not on work.
C33_NotWorkingAfterClockIn ==
  /\ last.op = "checkStatus" /\ last.res.success
  /\ last.res.message = "not_on_work"
  /\ SessionsOf(onWorkSheet, last.employee) # {}
  /\ last.session = NoRecord

\* ----------------------------------------------------------------- C34
\* C34: of the clockOut calls in flight for one employee only one succeeds:
\* a clockOut that returns success found the employee's session still in
\* the store, closed a ledger row that was open, and left the number of
\* sessions of every other employee as it was.
C34_OneClockOutWins ==
  [][(last'.op = "clockOut" /\ last'.res.success)
       => /\ SessionsOf(onWorkSheet, last'.employee) # {}
          /\ mainSheet[last'.found.row].clockOut = NoTime
          /\ \A e \in Names \ {last'.employee} :
               Cardinality(SessionsOf(onWorkSheet', e))
                 = Cardinality(SessionsOf(onWorkSheet, e))]_vars

\* Reached: a clockOut succeeded on a ledger row that it read as closed
\* already.
C34_SecondClockOutSucceeded ==
  /\ last.op = "clockOut" /\ last.res.success
  /\ last.found.row > 0
  /\ last.rows[last.found.row].employee = last.employee
  /\ last.rows[last.found.row].clockOut # NoTime

\* ----------------------------------------------------------------- C35
\* C35: the ledger row a clockOut settles on, at whatever stage, holds no
\* clock-out value in the rows the call searched.
C35_SelectedRowIsOpen ==
  (last.op = "clockOut" /\ last.found.row > 0)
    => last.rows[last.found.row].clockOut = NoTime

\* Reached: a clockOut replaced a recorded clock-out time by a later one.
C35_ClockOutOverwritten ==
  /\ last.op = "clockOut" /\ last.res.success /\ last.found.stage = 1
  /\ last.rows[last.found.row].clockOut # NoTime
  /\ mainSheet[last.found.row].clockOut > last.rows[last.found.row].clockOut

\* ----------------------------------------------------------------- C36
\* C36: a clockIn that returns an unsuccessful result has appended nothing
\* to the ledger and nothing to the open sessions.
C36_FailureWritesNothing ==
  [][(last'.op = "clockIn" /\ ~last'.res.success)
       => (mainSheet' = mainSheet /\ onWorkSheet' = onWorkSheet)]_vars

\* Reached: clockIn returned an unsuccessful result with both of its rows
\* in the store, the open-session cache entry never having been created.
C36_FailedAfterBothWrites ==
  /\ last.op = "clockIn" /\ ~last.res.success
  /\ ~cache["onwork"].present
  /\ Len(mainSheet) > 0 /\ mainSheet[Len(mainSheet)].employee = last.employee
  /\ \E i \in SessionsOf(onWorkSheet, last.employee) :
       onWorkSheet[i].mainRowIndex = Len(mainSheet) + 1

\* ----------------------------------------------------------------- C37
\* C37: every open session stores the row number of a ledger row that
\* exists, bears the session's employee name and has no clock-out value.
C37_SessionsPointAtOpenEntries ==
  \A i \in 1..Len(onWorkSheet) :
    /\ EntryPos(onWorkSheet[i]) \in 1..Len(mainSheet)
    /\ mainSheet[EntryPos(onWorkSheet[i])].employee = onWorkSheet[i].employeeName
    /\ mainSheet[EntryPos(onWorkSheet[i])].clockOut = NoTime

\* Reached: after a clockOut that returned success a session of the
\* employee is left whose row number is that of the row just closed.
C37_SessionOnClosedEntry ==
  /\ last.op = "clockOut" /\ last.res.success
  /\ \E i \in SessionsOf(onWorkSheet, last.employee) :
       /\ EntryPos(onWorkSheet[i]) = last.found.row
       /\ mainSheet[last.found.row].employee = last.employee
       /\ mainSheet[last.found.row].clockOut # NoTime

\* ----------------------------------------------------------------- C38
\* C38: every ledger row a turn of the sweeper changes bore a name that
\* matches the swept session's employee and had no clock-out value.
C38_SweepWritesOwnOpenRow ==
  [][last'.op = "sweepRow"
       => \A p \in 1..Len(mainSheet) :
            mainSheet'[p] # mainSheet[p]
              => /\ isNameMatch(last'.employee, mainSheet[p].employee)
                 /\ mainSheet[p].clockOut = NoTime]_vars

\* Reached: the sweeper wrote its note into the row of the swept session
\* that a clockOut had closed before.
C38_SweptAClosedEntry ==
  /\ last.op = "sweepRow" /\ last.res.message = "process"
  /\ EntryPos(last.session) \in 1..Len(mainSheet)
  /\ mainSheet[EntryPos(last.session)].note = missedCheckoutNote
  /\ mainSheet[EntryPos(last.session)].exitCoords # ""

\* ----------------------------------------------------------------- C39
\* C39: a name that is missing, empty or normalizes to the empty string
\* matches nothing: when the name asked for or the name recorded is
\* blank, the status lookup selects no session.
C39_BlankNeverMatches ==
  [][(/\ last'.op = "checkStatus"
      /\ \/ normalizeEmployeeName(last'.employee) = <<>>
         \/ normalizeEmployeeName(onWorkSheet[1].employeeName) = <<>>)
       => last'.session = NoRecord]_vars

\* Reached: the status lookup for a name of one space selected the session
\* of an employee whose name is not blank.
C39_BlankSelectedASession ==
  /\ last.op = "checkStatus" /\ last.res.success
  /\ last.employee = <<" ">>
  /\ last.session # NoRecord
  /\ normalizeEmployeeName(last.session.employeeName) # <<>>

====
